---- MODULE Spec2Model ----
(***************************************************************************)
(* Travel Alarm: the proximity-triggered alarm of src/pages/Index.tsx      *)
(* (second iteration, lines 250-533) driving the hooks useAlarm,           *)
(* useGeolocation and useTripHistory, and the native alarm hook            *)
(* useNativeAlarm.                                                         *)
(*                                                                         *)
(* React state is modelled as two records.  `store` is the state held by   *)
(* React with every queued setState applied in order; `rendered` is the    *)
(* snapshot the closures of the last committed render captured.  Handlers  *)
(* read `rendered` (their closure) and the refs, and write `store` and the *)
(* refs.  A render commits `store` into `rendered` and runs the effect of  *)
(* Index.tsx 444-458.  A click handler is followed by its render in the    *)
(* same step (React flushes the updates of a discrete event when the       *)
(* handler returns); the updates of geolocation callbacks, of promise      *)
(* continuations and of effects wait for the separate Render step.         *)
(***************************************************************************)
EXTENDS Integers, Sequences, FiniteSets, TLC

VARIABLES store, rendered, refs, env, hist, native, part006, nativeGeo,
          wakeLock

vars == <<store, rendered, refs, env, hist, native, part006, nativeGeo,
          wakeLock>>

\* ---------------------------------------------------------------- bounds
NumPoints == 3      \* positions 1..NumPoints on a line
GridStep == 500     \* metres between neighbouring positions
MaxArms == 2        \* handleActivateAlarm calls explored
MaxStarts == 2      \* the history counter of alarm starts saturates here
MaxRings == 2       \* native hook: triggerAlarm calls explored
MaxNotifications == 2   \* native hook: the count of notifications saturates
MaxInFlight == 2    \* native hook: stopAlarm continuations in flight
MaxWatches == 2     \* watches registered with the platform at one time
MaxDistance == 26000 \* distances to format, in tenths of a metre
MaxTravelMeters == 12000 \* distances whose travel time is estimated, metres
MaxTests == 2       \* test tones sounding at the same time
MaxNewTrips == 2    \* trips started on top of a stored history
MaxLocks == 2       \* wake locks held or asked for at one time

\* ------------------------------------------------------------- constants
Null == 0           \* JavaScript null (ids and positions start at 1)
MAX_TRIPS == 20
DefaultRadius == 1000

Points == 1..NumPoints
Dests == {1, NumPoints}
Radii == {500, 1000}
Tones == {"gentle", "melody"}       \* two of the AlarmTone values
Volumes == {30, 70}                 \* settings.volume, in percent
\* GeolocationPositionError.code: PERMISSION_DENIED, POSITION_UNAVAILABLE,
\* TIMEOUT.
ErrorCodes == {1, 2, 3}

NoPattern == [sound |-> FALSE, vibrate |-> FALSE, tone |-> "none", volume |-> 0]

Min(a, b) == IF a < b THEN a ELSE b
Abs(a) == IF a < 0 THEN 0 - a ELSE a

\* The handle a browser call returns: one that names no live resource.  (The
\* hooks null a ref when they clear its handle, so no stale handle is kept
\* and the number itself is never observed.)
FreshId(live) == CHOOSE n \in 1..(Cardinality(live) + 1) :
                    n \notin live /\ \A m \in 1..(n - 1) : m \in live

\* calculateDistance: great-circle distance in metres.  Positions lie on one
\* line, GridStep metres apart, so the distance is the absolute difference.
calculateDistance(p, q) == Abs(p - q) * GridStep

Armed(s) == s.isActive /\ ~s.isRinging
Idle(s) == ~s.isActive /\ ~s.isRinging

\* --------------------------------------------------------------- world
\* The five variables as one record, so that a handler is a function from
\* world to world and calls compose as in the source.
World == [store |-> store, rendered |-> rendered, refs |-> refs, env |-> env,
          hist |-> hist]

Apply(w) ==
    /\ store' = w.store
    /\ rendered' = w.rendered
    /\ refs' = w.refs
    /\ env' = w.env
    /\ hist' = w.hist
    /\ UNCHANGED <<native, part006, nativeGeo, wakeLock>>

\* ------------------------------------------------------------- useAlarm
DEFAULT_SETTINGS == [sound |-> TRUE, vibrate |-> TRUE, tone |-> "gentle",
                     volume |-> 70]

\* createAlarmSound: a new oscillator and gain node, held in the refs.
createAlarmSound(w) ==
    LET id == FreshId(w.env.oscillators)
    IN [w EXCEPT !.refs.oscillator = id, !.refs.gainNode = id,
                 !.env.oscillators = @ \cup {id}]

\* updateSettings: setState(prev => ({...prev, settings: {...prev.settings,
\* ...newSettings}})).  newSettings is a record of some of the settings.
updateSettings_retroactive(w, newSettings) ==
    LET merge(r) == [f \in DOMAIN r |->
                        IF f \in DOMAIN newSettings THEN newSettings[f] ELSE r[f]]
    IN [w EXCEPT !.store = merge(@),
                 !.env.pattern = IF @ = NoPattern THEN @ ELSE merge(@)]

updateSettings_replaces(w, newSettings) ==
    [w EXCEPT !.store = [f \in DOMAIN @ |->
                            IF f \in DOMAIN newSettings THEN newSettings[f]
                            ELSE IF f \in DOMAIN DEFAULT_SETTINGS
                            THEN DEFAULT_SETTINGS[f] ELSE @[f]]]

updateSettings(w, newSettings) ==
    [w EXCEPT !.store = [f \in DOMAIN @ |->
                            IF f \in DOMAIN newSettings THEN newSettings[f] ELSE @[f]]]

\* setInterval(...) stored in intervalRef.current.  The callback closes over
\* the settings of the render that called triggerAlarm: env.pattern.
startInterval(w) ==
    LET id == FreshId(w.env.timers)
    IN [w EXCEPT !.refs.interval = id,
                 !.env.timers = @ \cup {id},
                 !.env.pattern = [sound |-> w.rendered.sound,
                                  vibrate |-> w.rendered.vibrate,
                                  tone |-> w.rendered.tone,
                                  volume |-> w.rendered.volume]]

triggerAlarm_noRinging(w) ==
    LET w1 == [w EXCEPT !.hist.starts = Min(@ + 1, MaxStarts)]
    IN IF w.rendered.isRinging THEN w
       ELSE IF w.rendered.sound THEN startInterval(createAlarmSound(w1))
       ELSE IF w.rendered.vibrate THEN startInterval(w1)
       ELSE w1

\* When the AudioContext constructor throws (env.audioBroken) the exception
\* leaves createAlarmSound and triggerAlarm, which have no try: the setState
\* before the call stays queued and nothing after the call runs.
triggerAlarm(w) ==
    LET w1 == [w EXCEPT !.store.isRinging = TRUE,
                        !.hist.starts = Min(@ + 1, MaxStarts)]
    IN IF w.rendered.isRinging THEN w
       ELSE IF w.rendered.sound
       THEN IF w.env.audioBroken THEN w1
            ELSE startInterval(createAlarmSound(w1))
       ELSE IF w.rendered.vibrate THEN startInterval(w1)
       ELSE w1

stopAlarm_flips(w) ==
    [w EXCEPT !.env.timers = @ \ {w.refs.interval},
              !.env.pattern = NoPattern,
              !.refs.interval = Null,
              !.env.oscillators = @ \ {w.refs.oscillator},
              !.refs.oscillator = Null,
              !.refs.gainNode = Null,
              !.env.vibrating = FALSE,
              !.store.isRinging = ~@]

stopAlarm(w) ==
    [w EXCEPT !.env.timers = @ \ {w.refs.interval},
              !.env.pattern = NoPattern,
              !.refs.interval = Null,
              !.env.oscillators = @ \ {w.refs.oscillator},
              !.refs.oscillator = Null,
              !.refs.gainNode = Null,
              !.env.vibrating = FALSE,
              !.store.isRinging = FALSE]

activateAlarm(w) == [w EXCEPT !.store.isActive = TRUE]

deactivateAlarm(w) ==
    [stopAlarm(w) EXCEPT !.store.isActive = FALSE, !.store.isRinging = FALSE]

\* testAlarm: with sound on, a new oscillator at the rendered tone and volume
\* and a 500 ms timeout that stops it; the oscillator is kept in no ref.  The
\* 300 ms vibration is one call that ends by itself.
TestIds(w) == {t.id : t \in w.env.testTones}

testAlarm_noTimeout(w) ==
    IF w.rendered.sound
    THEN [w EXCEPT !.env.testTones = @ \cup
                     {[id |-> FreshId(TestIds(w)), tone |-> w.rendered.tone,
                       volume |-> w.rendered.volume, timeout |-> FALSE]}]
    ELSE w

testAlarm(w) ==
    IF w.rendered.sound /\ w.env.audioBroken THEN w
    ELSE IF w.rendered.sound
    THEN [w EXCEPT !.env.testTones = @ \cup
                     {[id |-> FreshId(TestIds(w)), tone |-> w.rendered.tone,
                       volume |-> w.rendered.volume, timeout |-> TRUE]}]
    ELSE w

\* The callback of the 500 ms timeout of test tone t: oscillator.stop().
testTimeout(w, t) == [w EXCEPT !.env.testTones = @ \ {t}]

\* ------------------------------------------------------- useGeolocation
\* getCurrentPosition: isLoading is set and a one-shot request is pending.
getCurrentPosition(w) ==
    [w EXCEPT !.store.isLoading = TRUE, !.env.oneShot = TRUE]

\* The error callback of getCurrentPosition and of watchPosition:
\* setState(prev => ({...prev, error, isLoading: false})).
\* hist.errorSeen records an error delivered while Armed.
errorCallback_dropsPosition(w, code) ==
    [w EXCEPT !.store.error = code, !.store.isLoading = FALSE,
              !.store.position = Null,
              !.hist.errorSeen = @ \/ Armed(w.store)]

errorCallback_disarms(w, code) ==
    [w EXCEPT !.store.error = code, !.store.isLoading = FALSE,
              !.store.isActive = FALSE,
              !.hist.errorSeen = @ \/ Armed(w.store)]

errorCallback(w, code) ==
    [w EXCEPT !.store.error = code, !.store.isLoading = FALSE,
              !.hist.errorSeen = @ \/ Armed(w.store)]

startWatching(w) ==
    IF w.refs.watchId # Null THEN w
    ELSE LET id == FreshId(w.env.watches)
         IN [w EXCEPT !.store.isWatching = TRUE,
                      !.refs.watchId = id,
                      !.env.watches = @ \cup {id}]

\* hist.stoppedIdle: stopWatching was called with no watch registered.
stopWatching_keepsFlag(w) ==
    IF w.refs.watchId = Null THEN [w EXCEPT !.hist.stoppedIdle = TRUE]
    ELSE [w EXCEPT !.env.watches = @ \ {w.refs.watchId},
                   !.refs.watchId = Null]

stopWatching(w) ==
    IF w.refs.watchId = Null THEN [w EXCEPT !.hist.stoppedIdle = TRUE]
    ELSE [w EXCEPT !.env.watches = @ \ {w.refs.watchId},
                   !.refs.watchId = Null,
                   !.store.isWatching = FALSE]

\* formatDistance.  A distance is a number of metres with a fraction; the
\* model counts it in tenths of a metre.  Math.round rounds to the nearest
\* integer, the half upwards.
MathRound(tenths) == (tenths + 5) \div 10

\* (meters / 1000).toFixed(1), as a number of tenths of a kilometre: the
\* nearest tenth to the double that the division gives.  A quotient halfway
\* between two tenths (1.05, 1.15, ...) is not exactly the double: these are
\* the halfway distances up to MaxDistance whose double is not below the
\* decimal value, which toFixed rounds up; the others it rounds down.
HalfwayRoundedUp ==
    {10500, 12500, 13500, 15500, 17500, 18500, 22500, 23500, 24500}

toFixed1(tenths) ==
    LET q == tenths \div 1000
        r == tenths % 1000
    IN IF r > 500 \/ (r = 500 /\ tenths \in HalfwayRoundedUp) THEN q + 1
       ELSE q

formatDistance_inclusive(tenths) ==
    IF tenths <= 10000 THEN ToString(MathRound(tenths)) \o "m"
    ELSE LET t == toFixed1(tenths)
         IN ToString(t \div 10) \o "." \o ToString(t % 10) \o "km"

formatDistance(tenths) ==
    IF tenths < 10000 THEN ToString(MathRound(tenths)) \o "m"
    ELSE LET t == toFixed1(tenths)
         IN ToString(t \div 10) \o "." \o ToString(t % 10) \o "km"

\* calculateDistance on latitude and longitude (part_008:131-149), in fixed
\* point.  Angles are counted in steps of 7.5 degrees; latitudes and
\* longitudes are multiples of CoordStep steps (30 degrees), so that the half
\* differences are whole steps.  Math.sin is the table of sines times 100 of
\* 0, 7.5, ..., 90 degrees, continued by sin(180 - x) = sin(x) and
\* sin(-x) = -sin(x); Math.cos(x) is sin(90 - x).
CoordStep == 4

QuarterTurn == 12

SinTable == <<0, 13, 26, 38, 50, 61, 71, 79, 87, 92, 97, 99, 100>>

Sin(x) ==
    LET pos == Abs(x)
        val == IF pos > QuarterTurn THEN SinTable[2 * QuarterTurn - pos + 1]
               ELSE SinTable[pos + 1]
    IN IF x < 0 THEN 0 - val ELSE val

Cos(x) == Sin(QuarterTurn - x)

Latitudes == {CoordStep * i : i \in -3..3}

Longitudes == {CoordStep * i : i \in -5..6}

Coordinates == Latitudes \X Longitudes

\* R * pi / 12: the metres of an arc of 15 degrees, R = 6371e3.
ArcMetres == 1667923

\* 2 * atan2(sqrt(a), sqrt(1 - a)) is twice the angle whose sine is sqrt(a):
\* the number of 15 degree arcs, the greatest k with sin(7.5 k)^2 <= a.
CentralArcs(a) ==
    CHOOSE k \in 0..QuarterTurn :
       /\ Sin(k) * Sin(k) * 10000 <= a
       /\ \A j \in (k + 1)..QuarterTurn : Sin(j) * Sin(j) * 10000 > a

\* a = sin(dphi/2)^2 + cos(phi1) cos(phi2) sin(dlambda/2)^2, the products
\* taken from the left as the code writes them; the result is R * c.
calculateDistanceLatLon_oneLatitude(lat1, lon1, lat2, lon2) ==
    LET halfDphi == (lat2 - lat1) \div 2
        halfDlambda == (lon2 - lon1) \div 2
        a == Sin(halfDphi) * Sin(halfDphi) * 10000
               + Cos(lat1) * Cos(lat1) * Sin(halfDlambda) * Sin(halfDlambda)
    IN ArcMetres * CentralArcs(a)

calculateDistanceLatLon(lat1, lon1, lat2, lon2) ==
    LET halfDphi == (lat2 - lat1) \div 2
        halfDlambda == (lon2 - lon1) \div 2
        a == Sin(halfDphi) * Sin(halfDphi) * 10000
               + Cos(lat1) * Cos(lat2) * Sin(halfDlambda) * Sin(halfDlambda)
    IN ArcMetres * CentralArcs(a)

\* estimateTravelTime (part_012:334-345, MapView.tsx:19-30).  avgSpeedKmH of
\* the transport modes; MapView uses the fixed speed MapViewSpeed.
TRANSPORT_MODES ==
    [walk |-> 5, cycle |-> 15, bike |-> 40, bus |-> 25, metro |-> 45,
     car |-> 50]

MapViewSpeed == 30

Speeds == {TRANSPORT_MODES[m] : m \in DOMAIN TRANSPORT_MODES} \cup {MapViewSpeed}

\* Math.round(distanceMeters / 1000 / avgSpeedKmH * 60): the quotient is
\* 3 * distanceMeters / (50 * avgSpeedKmH), rounded to the nearest integer,
\* the half upwards.  HalfRoundedDown holds the arguments up to
\* MaxTravelMeters for which the double that the three operations give lies
\* below the exact half (5125 m on foot: 61.49999999999999), so that
\* Math.round goes down.
HalfRoundedDown == {<<5125, 5>>}

travelMinutes(distanceMeters, avgSpeedKmH) ==
    LET nearest == (6 * distanceMeters + 50 * avgSpeedKmH) \div (100 * avgSpeedKmH)
    IN IF <<distanceMeters, avgSpeedKmH>> \in HalfRoundedDown
       THEN nearest - 1 ELSE nearest

estimateTravelTime_padded(distanceMeters, avgSpeedKmH) ==
    LET minutes == travelMinutes(distanceMeters, avgSpeedKmH)
        h == minutes \div 60
        m == minutes % 60
    IN IF minutes < 60 THEN ToString(minutes) \o " min"
       ELSE ToString(h) \o "h " \o ToString(m) \o "m"

estimateTravelTime(distanceMeters, avgSpeedKmH) ==
    LET minutes == travelMinutes(distanceMeters, avgSpeedKmH)
        h == minutes \div 60
        m == minutes % 60
    IN IF minutes < 1 THEN "< 1 min"
       ELSE IF minutes < 60 THEN ToString(minutes) \o " min"
       ELSE IF m > 0 THEN ToString(h) \o "h " \o ToString(m) \o "m"
       ELSE ToString(h) \o "h"

\* ------------------------------------------------------- useTripHistory
\* hist.dropped: the id of the trip that slice(0, MAX_TRIPS) cut off last.
saveTrips_unlimited(w, newTrips) ==
    [w EXCEPT !.store.trips = newTrips, !.env.savedTrips = newTrips]

saveTrips(w, newTrips) ==
    LET limitedTrips == SubSeq(newTrips, 1, Min(Len(newTrips), MAX_TRIPS))
    IN [w EXCEPT !.store.trips = limitedTrips, !.env.savedTrips = limitedTrips,
                 !.hist.dropped = IF Len(newTrips) > MAX_TRIPS
                                  THEN newTrips[Len(newTrips)].id ELSE @]

\* The new trip's id is Date.now(): env.now, which advances.
startTrip(w, dest, alertDistance) ==
    LET newTrip == [id |-> w.env.now, destination |-> dest, ended |-> FALSE,
                    completed |-> FALSE, alertDistance |-> alertDistance]
    IN saveTrips([w EXCEPT !.env.now = @ + 1], <<newTrip>> \o w.rendered.trips)

endTrip(w, tripId, completed) ==
    saveTrips(w, [i \in 1..Len(w.rendered.trips) |->
                    IF w.rendered.trips[i].id = tripId
                    THEN [w.rendered.trips[i] EXCEPT !.ended = TRUE,
                                                     !.completed = completed]
                    ELSE w.rendered.trips[i]])

deleteTrip(w, tripId) ==
    saveTrips(w, SelectSeq(w.rendered.trips, LAMBDA t : t.id # tripId))

clearHistory(w) == saveTrips(w, <<>>)

\* ------------------------------------------------------------ Index.tsx
\* hist.replaced: the destination this call replaced while the alarm was
\* active and not ringing.
handleSetDestination_ignoredWhileActive(w, d) ==
    IF w.rendered.isActive THEN w ELSE [w EXCEPT !.store.destination = d]

handleSetDestination(w, d) ==
    [w EXCEPT !.store.destination = d,
              !.hist.replaced = IF Armed(w.store) /\ w.store.destination # d
                                THEN w.store.destination ELSE @,
              !.hist.fixSinceReplace = IF Armed(w.store) /\ w.store.destination # d
                                       THEN FALSE ELSE @]

\* handleMapClick (lines 297-300), and handleMapClick of HomeScreen
\* (part_012:471-476), which has the same check before it passes the point to
\* handleSetDestination.  hist.mapIgnored: a map click came while the alarm
\* was active; hist.mapSet: a map click set the destination.
handleMapClick_noCheck(w, d) ==
    [w EXCEPT !.store.destination = d, !.hist.mapSet = TRUE]

handleMapClick(w, d) ==
    IF w.rendered.isActive THEN [w EXCEPT !.hist.mapIgnored = TRUE]
    ELSE [w EXCEPT !.store.destination = d, !.hist.mapSet = TRUE]

\* The handler of the first iteration (lines 57-60): it only clears.
handleClearDestination_onlyClears(w) ==
    [w EXCEPT !.store.destination = Null,
              !.store.distanceToDestination = Null,
              !.hist.clearedActive = @ \/ w.rendered.isActive]

\* hist.clearedActive: the destination was cleared while the alarm was active.
handleClearDestination(w) ==
    LET stopped ==
            IF w.refs.currentTripId # Null
            THEN [endTrip(stopWatching(deactivateAlarm(w)), w.refs.currentTripId, FALSE)
                    EXCEPT !.refs.currentTripId = Null]
            ELSE stopWatching(deactivateAlarm(w))
        w1 == IF w.rendered.isActive THEN stopped ELSE w
    IN [w1 EXCEPT !.store.destination = Null,
                  !.store.distanceToDestination = Null,
                  !.hist.clearedActive = @ \/ w.rendered.isActive]

\* hist: a new session begins (the history variables are reset);
\* hist.armFailed records that the last call returned at its check.
handleActivateAlarm_noCheck(w) ==
    LET tripId == w.env.now
        w1 == startTrip(w, w.rendered.destination, w.rendered.alertRadius)
        w2 == [w1 EXCEPT !.refs.currentTripId = tripId]
        w3 == startWatching(activateAlarm(w2))
    IN [w3 EXCEPT !.hist.starts = 0, !.hist.sawInside = FALSE,
                  !.hist.replaced = Null, !.hist.fixSinceReplace = FALSE,
                  !.hist.clearedActive = FALSE, !.hist.errorSeen = FALSE,
                       !.hist.insideAfterError = FALSE,
                  !.hist.armFailed =
                      w.rendered.destination = Null \/ w.rendered.position = Null]

handleActivateAlarm_noTrip(w) ==
    IF w.rendered.destination = Null \/ w.rendered.position = Null
    THEN [w EXCEPT !.hist.armFailed = TRUE]
    ELSE LET w3 == startWatching(activateAlarm(w))
         IN [w3 EXCEPT !.hist.starts = 0, !.hist.sawInside = FALSE,
                       !.hist.replaced = Null, !.hist.fixSinceReplace = FALSE,
                       !.hist.clearedActive = FALSE, !.hist.errorSeen = FALSE,
                       !.hist.insideAfterError = FALSE,
                       !.hist.armFailed = FALSE]

handleActivateAlarm(w) ==
    IF w.rendered.destination = Null \/ w.rendered.position = Null
    THEN [w EXCEPT !.hist.armFailed = TRUE]
    ELSE LET tripId == w.env.now
             w1 == startTrip(w, w.rendered.destination, w.rendered.alertRadius)
             w2 == [w1 EXCEPT !.refs.currentTripId = tripId]
             w3 == startWatching(activateAlarm(w2))
         IN [w3 EXCEPT !.hist.starts = 0, !.hist.sawInside = FALSE,
                       !.hist.replaced = Null, !.hist.fixSinceReplace = FALSE,
                       !.hist.clearedActive = FALSE, !.hist.errorSeen = FALSE,
                       !.hist.insideAfterError = FALSE,
                       !.hist.armFailed = FALSE]

handleDeactivateAlarm_clearsFence(w) ==
    LET w1 == stopWatching(deactivateAlarm(w))
        w2 == IF w.refs.currentTripId # Null
              THEN [endTrip(w1, w.refs.currentTripId, FALSE)
                      EXCEPT !.refs.currentTripId = Null]
              ELSE w1
    IN [w2 EXCEPT !.store.destination = Null]

handleDeactivateAlarm_completed(w) ==
    LET w1 == stopWatching(deactivateAlarm(w))
    IN IF w.refs.currentTripId # Null
       THEN [endTrip(w1, w.refs.currentTripId, TRUE)
               EXCEPT !.refs.currentTripId = Null]
       ELSE w1

handleDeactivateAlarm(w) ==
    LET w1 == stopWatching(deactivateAlarm(w))
    IN IF w.refs.currentTripId # Null
       THEN [endTrip(w1, w.refs.currentTripId, FALSE)
               EXCEPT !.refs.currentTripId = Null]
       ELSE w1

handleStopAlarm_incomplete(w) ==
    LET w1 == stopWatching(deactivateAlarm(stopAlarm(w)))
        w2 == IF w.refs.currentTripId # Null
              THEN [endTrip(w1, w.refs.currentTripId, FALSE)
                      EXCEPT !.refs.currentTripId = Null]
              ELSE w1
    IN [w2 EXCEPT !.store.destination = Null]

handleStopAlarm(w) ==
    LET w1 == stopWatching(deactivateAlarm(stopAlarm(w)))
        w2 == IF w.refs.currentTripId # Null
              THEN [endTrip(w1, w.refs.currentTripId, TRUE)
                      EXCEPT !.refs.currentTripId = Null]
              ELSE w1
    IN [w2 EXCEPT !.store.destination = Null]

\* The effect of lines 444-458, run with the values of the committed render.
DistanceEffect_exclusive(w) ==
    IF w.rendered.position # Null /\ w.rendered.destination # Null
    THEN LET distance == calculateDistance(w.rendered.position, w.rendered.destination)
             w1 == [w EXCEPT !.store.distanceToDestination = distance]
         IN IF w.rendered.isActive /\ ~w.rendered.isRinging
               /\ distance < w.rendered.alertRadius
            THEN triggerAlarm(w1)
            ELSE w1
    ELSE w

DistanceEffect_noActiveCheck(w) ==
    IF w.rendered.position # Null /\ w.rendered.destination # Null
    THEN LET distance == calculateDistance(w.rendered.position, w.rendered.destination)
             w1 == [w EXCEPT !.store.distanceToDestination = distance]
         IN IF ~w.rendered.isRinging /\ distance <= w.rendered.alertRadius
            THEN triggerAlarm(w1)
            ELSE w1
    ELSE w

DistanceEffect_cancelsOutside(w) ==
    IF w.rendered.position # Null /\ w.rendered.destination # Null
    THEN LET distance == calculateDistance(w.rendered.position, w.rendered.destination)
             w1 == [w EXCEPT !.store.distanceToDestination = distance]
         IN IF w.rendered.isActive /\ ~w.rendered.isRinging
               /\ distance <= w.rendered.alertRadius
            THEN triggerAlarm(w1)
            ELSE IF w.rendered.isRinging /\ distance > w.rendered.alertRadius
            THEN stopAlarm(w1)
            ELSE w1
    ELSE w

DistanceEffect(w) ==
    IF w.rendered.position # Null /\ w.rendered.destination # Null
    THEN LET distance == calculateDistance(w.rendered.position, w.rendered.destination)
             w1 == [w EXCEPT !.store.distanceToDestination = distance]
         IN IF w.rendered.isActive /\ ~w.rendered.isRinging
               /\ distance <= w.rendered.alertRadius
            THEN triggerAlarm(w1)
            ELSE w1
    ELSE w

\* One render of Index: the closures capture the store, then the effect runs.
\* currentPosition is a new object on every render (lines 293-295), so the
\* effect's dependencies differ on every render and it always runs.
RenderIndex_noEffect(w) == [w EXCEPT !.rendered = w.store]

RenderIndex(w) == DistanceEffect([w EXCEPT !.rendered = w.store])

\* A fix delivered by the browser: setState(prev => ({...prev, position})).
\* hist.sawInside records a fix within the radius delivered while Armed,
\* hist.insideAfterError one delivered after an error of the same session.
positionCallback(w, p) ==
    LET inside == /\ w.store.isActive /\ ~w.store.isRinging
                  /\ w.store.destination # Null
                  /\ calculateDistance(p, w.store.destination) <= w.store.alertRadius
    IN [w EXCEPT !.store.position = p, !.store.error = Null,
                 !.store.isLoading = FALSE,
                 !.hist.sawInside = @ \/ inside,
                 !.hist.insideAfterError = @ \/ (inside /\ w.hist.errorSeen),
                 !.hist.fixSinceReplace = @ \/ (w.hist.replaced # Null)]

\* ---------------------------------------------------------------- Init
\* Index calls useAlarm() without initial settings: the defaults apply.

\* The hook of src/hooks/useNativeAlarm.ts, one record: `store` and
\* `rendered` as above; the refs intervalRef.current (interval),
\* intervalRef.vibrationInterval (vibrationInterval) and oscillatorRef; the
\* live interval timers, each [id, kind]; the promises in flight (starting:
\* LocalNotifications.schedule of triggerNativeAlarm, stopping: the queries
\* of stopAlarm, activating: the permission request of activateAlarm).
NativeStart(isNative) ==
    [store |-> [isActive |-> FALSE, isRinging |-> FALSE],
     rendered |-> [isActive |-> FALSE, isRinging |-> FALSE],
     isNative |-> isNative,
     sound |-> DEFAULT_SETTINGS.sound, vibrate |-> DEFAULT_SETTINGS.vibrate,
     interval |-> Null, vibrationInterval |-> Null, oscillator |-> Null,
     timers |-> {}, oscillators |-> {},
     starting |-> 0, stopping |-> 0, activating |-> 0,
     notifications |-> 0, foreign |-> FALSE, vibrating |-> FALSE,
     rings |-> 0]

IndexStore ==
    [destination |-> Null, alertRadius |-> DefaultRadius,
     distanceToDestination |-> Null,
     isActive |-> FALSE, isRinging |-> FALSE,
     sound |-> DEFAULT_SETTINGS.sound,
     vibrate |-> DEFAULT_SETTINGS.vibrate,
     tone |-> DEFAULT_SETTINGS.tone,
     volume |-> DEFAULT_SETTINGS.volume,
     position |-> Null, error |-> Null, isLoading |-> TRUE,
     isWatching |-> FALSE, trips |-> <<>>]

IndexRefs ==
    [currentTripId |-> Null, watchId |-> Null, interval |-> Null,
     oscillator |-> Null, gainNode |-> Null]

\* The browser around the component.  audioBroken: the AudioContext
\* constructor throws (no Web Audio in this browser).  distance and display:
\* a distance handed to formatDistance, in tenths of a metre, and the text
\* the screen shows for it ("" before it is shown).  distanceMeters,
\* avgSpeedKmH and travelTime: the arguments of estimateTravelTime and the
\* text shown for them.  measured: two coordinate pairs and the distances
\* that calculateDistance returned for them.
IndexEnv ==
    [timers |-> {}, oscillators |-> {}, watches |-> {},
     vibrating |-> FALSE, oneShot |-> TRUE, savedTrips |-> <<>>,
     now |-> 1, pattern |-> NoPattern, testTones |-> {},
     audioBroken |-> FALSE, distance |-> 0, display |-> "",
     distanceMeters |-> 0, avgSpeedKmH |-> TRANSPORT_MODES.walk,
     travelTime |-> "",
     measured |-> [a |-> <<0, 0>>, b |-> <<0, 0>>, ab |-> Null, ba |-> Null,
                   aa |-> Null, done |-> FALSE]]

IndexHist ==
    [starts |-> 0, sawInside |-> FALSE, replaced |-> Null,
     fixSinceReplace |-> FALSE, armFailed |-> FALSE,
     clearedActive |-> FALSE, errorSeen |-> FALSE,
     insideAfterError |-> FALSE, mapIgnored |-> FALSE, mapSet |-> FALSE,
     dropped |-> Null, stoppedIdle |-> FALSE]

InitIndex ==
    /\ store = IndexStore
    /\ rendered = store
    /\ refs = IndexRefs
    /\ env = IndexEnv
    /\ hist = IndexHist

\* The hook of useNativeGeolocation.ts, one record: the React state (position,
\* error, isWatching, isBackgroundTracking), the ref watchIdRef (watchId), the
\* watches registered with the platform (watches, each with its id and the
\* API that registered it), the ids whose watchPosition or addWatcher promise
\* has not resolved yet (pending), and the stopWatching and
\* stopBackgroundTracking calls waiting at their await.  stopLast: the last
\* call of startBackgroundTracking or stopBackgroundTracking was the stop.
NativeGeoStart(isNative) ==
    [store |-> [position |-> Null, error |-> Null, isWatching |-> FALSE,
                isBackgroundTracking |-> FALSE],
     isNative |-> isNative, watchId |-> Null,
     watches |-> {}, pending |-> {},
     stoppingWatch |-> 0, stoppingBackground |-> 0, stopLast |-> FALSE]

\* The hook of part_004 (useWakeLock), one record: the React state (isActive,
\* isSupported, error) and the isActive of the last render, which the
\* visibilitychange handler closes over; the ref wakeLockRef (ref); whether
\* navigator has wakeLock (supported); the sentinels the platform holds
\* (held); the calls waiting at their await (requesting, releasing); whether
\* the page is visible.  lost: the system released a lock that was held and
\* no lock was asked for or released by the hook since.
WakeLockStart(isNative, supported) ==
    [store |-> [isActive |-> FALSE, isSupported |-> supported, error |-> Null],
     rendered |-> [isActive |-> FALSE],
     isNative |-> isNative, supported |-> supported,
     ref |-> Null, held |-> {}, requesting |-> 0, releasing |-> 0,
     visible |-> TRUE, lost |-> FALSE]

\* The hook of part_006 (useNativeAlarm with the test toggle), one record in
\* the same way: isActive, isRinging and settings are three useState cells;
\* the refs intervalRef (interval) and oscillatorRef (oscillator); the
\* promises in flight (starting: LocalNotifications.schedule of triggerAlarm,
\* stopping: getPending and cancel of stopAlarm, testing: testAlarmSound).
\* settings come from loadSettings: the defaults, or what was stored.
Part006Start(isNative, sound, vibrate) ==
    [store |-> [isActive |-> FALSE, isRinging |-> FALSE],
     rendered |-> [isActive |-> FALSE, isRinging |-> FALSE],
     isNative |-> isNative, sound |-> sound, vibrate |-> vibrate,
     interval |-> Null, oscillator |-> Null,
     timers |-> {}, oscillators |-> {},
     starting |-> 0, stopping |-> 0, testing |-> 0,
     notifications |-> 0, vibrating |-> FALSE, rings |-> 0]

\* Index on the web: Capacitor.isNativePlatform() is false.
Init ==
    /\ InitIndex
    /\ native = NativeStart(FALSE)
    /\ part006 = Part006Start(FALSE, DEFAULT_SETTINGS.sound, DEFAULT_SETTINGS.vibrate)
    /\ nativeGeo = NativeGeoStart(FALSE)
    /\ wakeLock = WakeLockStart(FALSE, TRUE)

\* The native hook, on either platform.
InitNative ==
    /\ InitIndex
    /\ \E isNative \in BOOLEAN : native = NativeStart(isNative)
    /\ part006 = Part006Start(FALSE, DEFAULT_SETTINGS.sound, DEFAULT_SETTINGS.vibrate)
    /\ nativeGeo = NativeGeoStart(FALSE)
    /\ wakeLock = WakeLockStart(FALSE, TRUE)

\* The hook of part_006, on either platform, with any stored switches.
InitPart006 ==
    /\ InitIndex
    /\ native = NativeStart(FALSE)
    /\ \E isNative \in BOOLEAN, sound \in BOOLEAN, vibrate \in BOOLEAN :
            part006 = Part006Start(isNative, sound, vibrate)
    /\ nativeGeo = NativeGeoStart(FALSE)
    /\ wakeLock = WakeLockStart(FALSE, TRUE)

\* ------------------------------------------------------------- actions
\* The guards of the click actions are what HomeScreen shows for the last
\* render (part_012, lines 519-871).

\* "Set Alarm" (part_012:837-841).
ClickActivateAlarm ==
    /\ ~rendered.isRinging /\ ~rendered.isActive
    /\ env.now <= MaxArms
    /\ Apply(RenderIndex(handleActivateAlarm(World)))

\* "Stop Tracking" (part_012:837-841).
ClickDeactivateAlarm ==
    /\ ~rendered.isRinging /\ rendered.isActive
    /\ Apply(RenderIndex(handleDeactivateAlarm(World)))

\* "I'M AWAKE" (part_012:529-548).
ClickStopAlarm ==
    /\ rendered.isRinging
    /\ Apply(RenderIndex(handleStopAlarm(World)))

\* Search result, favourite, history entry or map tap (part_012:458-486,
\* shown while the alarm is not active).
ClickSetDestination(d) ==
    /\ ~rendered.isActive
    /\ Apply(RenderIndex(handleSetDestination(World, d)))

\* The X of the destination field (part_012:591-615).
ClickClearDestination ==
    /\ ~rendered.isActive /\ rendered.destination # Null
    /\ Apply(RenderIndex(handleClearDestination(World)))

\* The alert-distance slider (part_012:794-808).
ChangeAlertRadius(r) ==
    /\ ~rendered.isActive /\ ~rendered.isRinging /\ rendered.destination # Null
    /\ Apply(RenderIndex([World EXCEPT !.store.alertRadius = r]))

\* getCurrentPosition(): one fix is requested (part_008:32-72).
RequestPosition ==
    /\ ~env.oneShot /\ ~rendered.isLoading
    /\ Apply(RenderIndex(getCurrentPosition(World)))

OneShotFix(p) ==
    /\ env.oneShot
    /\ Apply([positionCallback(World, p) EXCEPT !.env.oneShot = FALSE])

\* A fix of the registered watch (part_008:81-89).
WatchFix(p) ==
    /\ env.watches # {}
    /\ Apply(positionCallback(World, p))

\* React renders when queued updates changed the state.
Render ==
    /\ store # rendered
    /\ Apply(RenderIndex(World))

Next ==
    \/ ClickActivateAlarm
    \/ ClickDeactivateAlarm
    \/ ClickStopAlarm
    \/ \E d \in Dests : ClickSetDestination(d)
    \/ ClickClearDestination
    \/ \E r \in Radii : ChangeAlertRadius(r)
    \/ RequestPosition
    \/ \E p \in Points : OneShotFix(p)
    \/ \E p \in Points : WatchFix(p)
    \/ Render

Spec == Init /\ [][Next]_vars

\* The same with the error callbacks of the browser: the pending one-shot
\* request fails, or the registered watch reports an error and stays
\* registered.
OneShotError(code) ==
    /\ env.oneShot
    /\ Apply([errorCallback(World, code) EXCEPT !.env.oneShot = FALSE])

WatchError(code) ==
    /\ env.watches # {}
    /\ Apply(errorCallback(World, code))

NextErrors ==
    \/ Next
    \/ \E code \in ErrorCodes : OneShotError(code)
    \/ \E code \in ErrorCodes : WatchError(code)

SpecErrors == Init /\ [][NextErrors]_vars

\* useGeolocation alone (part_008): startWatching and stopWatching called in
\* any order, the fixes and errors of the watch and of the one-shot request.
UseStartWatching ==
    /\ Cardinality(env.watches) < MaxWatches
    /\ Apply(RenderIndex(startWatching(World)))

UseStopWatching ==
    /\ Cardinality(env.watches) <= MaxWatches
    /\ Apply(RenderIndex(stopWatching(World)))

NextWatching ==
    \/ UseStartWatching
    \/ UseStopWatching
    \/ RequestPosition
    \/ \E p \in Points : OneShotFix(p)
    \/ \E p \in Points : WatchFix(p)
    \/ \E code \in ErrorCodes : OneShotError(code)
    \/ \E code \in ErrorCodes : WatchError(code)
    \/ Render

SpecWatching == Init /\ [][NextWatching]_vars

\* ------------------------------------------- the handlers as operations
\* Index hands handleActivateAlarm, handleSetDestination and
\* handleClearDestination to its screens as props (lines 506-530).  The
\* screen of part_012 offers them only while the alarm is not active; here
\* they are also called while it is active, which is what the handlers
\* themselves allow (handleClearDestination has a branch for it, lines
\* 312-323; handleSetDestination and handleActivateAlarm do not look).
HandlerActivateAlarm ==
    /\ rendered.isActive
    /\ env.now <= MaxArms
    /\ Apply(RenderIndex(handleActivateAlarm(World)))

HandlerSetDestination(d) ==
    /\ rendered.isActive
    /\ Apply(RenderIndex(handleSetDestination(World, d)))

HandlerClearDestination ==
    /\ rendered.isActive
    /\ Apply(RenderIndex(handleClearDestination(World)))

NextHandlers ==
    \/ Next
    \/ HandlerActivateAlarm
    \/ \E d \in Dests : HandlerSetDestination(d)
    \/ HandlerClearDestination

SpecHandlers == Init /\ [][NextHandlers]_vars

\* useTripHistory alone.  The history loaded from localStorage (lines 21-30)
\* is one that saveTrips wrote: at most MAX_TRIPS trips, the newest first,
\* their ids the times they were started at.  The histories to begin with
\* are the ones that MaxNewTrips trips fill up; clearHistory gives the empty
\* one.
StoredHistory(n) ==
    [i \in 1..n |-> [id |-> n + 1 - i, destination |-> 1, ended |-> TRUE,
                     completed |-> FALSE, alertDistance |-> DefaultRadius]]

InitTrips ==
    /\ \E n \in (MAX_TRIPS - MaxNewTrips)..MAX_TRIPS :
         /\ store = [IndexStore EXCEPT !.trips = StoredHistory(n)]
         /\ env = [IndexEnv EXCEPT !.savedTrips = StoredHistory(n),
                                   !.now = MAX_TRIPS + 1]
    /\ rendered = store
    /\ refs = IndexRefs
    /\ hist = IndexHist
    /\ native = NativeStart(FALSE)
    /\ part006 = Part006Start(FALSE, DEFAULT_SETTINGS.sound, DEFAULT_SETTINGS.vibrate)
    /\ nativeGeo = NativeGeoStart(FALSE)
    /\ wakeLock = WakeLockStart(FALSE, TRUE)

TripStartTrip ==
    /\ env.now <= MAX_TRIPS + MaxNewTrips
    /\ \E dest \in Dests :
         Apply(RenderIndex(startTrip(World, dest, DefaultRadius)))

\* endTrip for a trip that is open, as the handlers of Index call it.
TripEndTrip ==
    \E i \in 1..Len(rendered.trips), completed \in BOOLEAN :
       /\ ~rendered.trips[i].ended
       /\ Apply(RenderIndex(endTrip(World, rendered.trips[i].id, completed)))

\* deleteTrip, here for the newest and for the oldest trip of the list.
TripDeleteTrip ==
    /\ rendered.trips # <<>>
    /\ \E i \in {1, Len(rendered.trips)} :
         Apply(RenderIndex(deleteTrip(World, rendered.trips[i].id)))

TripClearHistory ==
    /\ rendered.trips # <<>>
    /\ Apply(RenderIndex(clearHistory(World)))

NextTrips ==
    \/ TripStartTrip
    \/ TripEndTrip
    \/ TripDeleteTrip
    \/ TripClearHistory

SpecTrips == InitTrips /\ [][NextTrips]_vars

\* The map of the home screen (part_012:662-691) is shown whether or not the
\* alarm is active; a click on it calls handleMapClick.
ClickMap(d) ==
    /\ d \in Dests
    /\ Apply(RenderIndex(handleMapClick(World, d)))

NextMap ==
    \/ Next
    \/ \E d \in Dests : ClickMap(d)

SpecMap == Init /\ [][NextMap]_vars

\* ------------------------------------------------ useAlarm on its own
\* The hook with its settings, driven as Index and SettingsScreen drive it:
\* activateAlarm when not active, triggerAlarm from the effect of a render
\* that sees Armed, stopAlarm and deactivateAlarm from Ringing,
\* deactivateAlarm when active, and updateSettings and testAlarm from the
\* settings screen (Index.tsx:475-483), which opens in every state.  No
\* destination is set, so the effect of RenderIndex calls nothing.

\* SettingsScreen.tsx:324-375 updates one setting at a time.
Partials ==
    {[sound |-> b] : b \in BOOLEAN} \cup {[vibrate |-> b] : b \in BOOLEAN}
      \cup {[tone |-> t] : t \in Tones} \cup {[volume |-> v] : v \in Volumes}

AlarmActivate ==
    /\ ~rendered.isActive
    /\ Apply(RenderIndex(activateAlarm(World)))

AlarmTrigger ==
    /\ Armed(rendered) /\ ~store.isRinging
    /\ Apply(triggerAlarm(World))

AlarmStop ==
    /\ rendered.isRinging
    /\ Apply(RenderIndex(deactivateAlarm(stopAlarm(World))))

AlarmDeactivate ==
    /\ rendered.isActive /\ ~rendered.isRinging
    /\ Apply(RenderIndex(deactivateAlarm(World)))

AlarmUpdateSettings(newSettings) ==
    Apply(RenderIndex(updateSettings(World, newSettings)))

\* The Test Alarm button (SettingsScreen.tsx:400-403).
AlarmTest ==
    /\ rendered.sound \/ rendered.vibrate
    /\ Cardinality(env.testTones) < MaxTests
    /\ Apply(RenderIndex(testAlarm(World)))

AlarmTestTimeout(t) ==
    /\ t \in env.testTones /\ t.timeout
    /\ Apply(testTimeout(World, t))

AlarmRender ==
    /\ store # rendered
    /\ Apply(RenderIndex(World))

TestTones ==
    [id : 1..(MaxTests + 1), tone : Tones, volume : Volumes, timeout : BOOLEAN]

NextAlarm ==
    \/ AlarmActivate
    \/ AlarmTrigger
    \/ AlarmStop
    \/ AlarmDeactivate
    \/ \E newSettings \in Partials : AlarmUpdateSettings(newSettings)
    \/ AlarmTest
    \/ \E t \in TestTones : AlarmTestTimeout(t)
    \/ AlarmRender

SpecAlarm == Init /\ [][NextAlarm]_vars

\* A timeout that was set fires: the browser runs the callback of every
\* pending setTimeout.
FairSpecAlarm ==
    SpecAlarm /\ \A t \in TestTones : WF_vars(AlarmTestTimeout(t))

\* useAlarm in a browser whose AudioContext may be missing.
InitAudio ==
    /\ store = IndexStore /\ rendered = store /\ refs = IndexRefs
    /\ hist = IndexHist
    /\ \E audioBroken \in BOOLEAN :
          env = [IndexEnv EXCEPT !.audioBroken = audioBroken]
    /\ native = NativeStart(FALSE)
    /\ part006 = Part006Start(FALSE, DEFAULT_SETTINGS.sound, DEFAULT_SETTINGS.vibrate)
    /\ nativeGeo = NativeGeoStart(FALSE)
    /\ wakeLock = WakeLockStart(FALSE, TRUE)

SpecAudio == InitAudio /\ [][NextAlarm]_vars

\* The application is restarted (the page is loaded again): timers,
\* oscillators and watches of the old page are gone, every useState and
\* useRef starts from its initial value, and only localStorage is kept.
\* useAlarm starts from useState({..., settings: {...DEFAULT_SETTINGS,
\* ...initialSettings}}), and Index passes no initialSettings; useTripHistory
\* loads the saved trips.
restart(w) ==
    LET loaded == [IndexStore EXCEPT !.trips = w.env.savedTrips]
    IN [store |-> loaded, rendered |-> loaded, refs |-> IndexRefs,
        env |-> [IndexEnv EXCEPT !.savedTrips = w.env.savedTrips,
                                 !.now = w.env.now,
                                 !.audioBroken = w.env.audioBroken],
        hist |-> IndexHist]

AlarmRestart == Apply(restart(World))

NextRestart == NextAlarm \/ AlarmRestart

SpecRestart == Init /\ [][NextRestart]_vars

\* formatDistance on its own: any distance up to MaxDistance is shown.
InitFormat ==
    /\ store = IndexStore /\ rendered = store /\ refs = IndexRefs
    /\ hist = IndexHist
    /\ \E distance \in 0..MaxDistance :
          env = [IndexEnv EXCEPT !.distance = distance]
    /\ native = NativeStart(FALSE)
    /\ part006 = Part006Start(FALSE, DEFAULT_SETTINGS.sound, DEFAULT_SETTINGS.vibrate)
    /\ nativeGeo = NativeGeoStart(FALSE)
    /\ wakeLock = WakeLockStart(FALSE, TRUE)

ShowDistance ==
    /\ env.display = ""
    /\ Apply([World EXCEPT !.env.display = formatDistance(env.distance)])

NextFormat == ShowDistance

SpecFormat == InitFormat /\ [][NextFormat]_vars

\* estimateTravelTime on its own: any distance up to MaxTravelMeters at the
\* speed of any transport mode.
InitTravel ==
    /\ store = IndexStore /\ rendered = store /\ refs = IndexRefs
    /\ hist = IndexHist
    /\ \E distanceMeters \in 0..MaxTravelMeters, avgSpeedKmH \in Speeds :
          env = [IndexEnv EXCEPT !.distanceMeters = distanceMeters,
                                 !.avgSpeedKmH = avgSpeedKmH]
    /\ native = NativeStart(FALSE)
    /\ part006 = Part006Start(FALSE, DEFAULT_SETTINGS.sound, DEFAULT_SETTINGS.vibrate)
    /\ nativeGeo = NativeGeoStart(FALSE)
    /\ wakeLock = WakeLockStart(FALSE, TRUE)

ShowTravelTime ==
    /\ env.travelTime = ""
    /\ Apply([World EXCEPT !.env.travelTime =
                 estimateTravelTime(env.distanceMeters, env.avgSpeedKmH)])

NextTravel == ShowTravelTime

SpecTravel == InitTravel /\ [][NextTravel]_vars

\* calculateDistance on its own: two coordinate pairs are measured in both
\* directions, and the first against itself.
InitDistance ==
    /\ store = IndexStore /\ rendered = store /\ refs = IndexRefs
    /\ hist = IndexHist
    /\ \E a \in Coordinates, b \in Coordinates :
          env = [IndexEnv EXCEPT !.measured.a = a, !.measured.b = b]
    /\ native = NativeStart(FALSE)
    /\ part006 = Part006Start(FALSE, DEFAULT_SETTINGS.sound, DEFAULT_SETTINGS.vibrate)
    /\ nativeGeo = NativeGeoStart(FALSE)
    /\ wakeLock = WakeLockStart(FALSE, TRUE)

MeasureDistance ==
    /\ ~env.measured.done
    /\ LET a == env.measured.a
           b == env.measured.b
       IN Apply([World EXCEPT
                   !.env.measured.ab = calculateDistanceLatLon(a[1], a[2], b[1], b[2]),
                   !.env.measured.ba = calculateDistanceLatLon(b[1], b[2], a[1], a[2]),
                   !.env.measured.aa = calculateDistanceLatLon(a[1], a[2], a[1], a[2]),
                   !.env.measured.done = TRUE])

NextDistance == MeasureDistance

SpecDistance == InitDistance /\ [][NextDistance]_vars

\* ======================================================= useNativeAlarm.ts
TimerIds(n) == {t.id : t \in n.timers}

\* setInterval: a new live timer; the result is the hook with the timer added
\* (its handle is FreshId of the timers before).
setInterval(n, kind) ==
    [n EXCEPT !.timers = @ \cup {[id |-> FreshId(TimerIds(n)), kind |-> kind]}]

clearInterval(n, id) == [n EXCEPT !.timers = {t \in @ : t.id # id}]

createWebAudioAlarm(n) ==
    LET id == FreshId(n.oscillators)
    IN [n EXCEPT !.oscillator = id, !.oscillators = @ \cup {id}]

\* triggerNativeAlarm up to its await: LocalNotifications.schedule is called.
triggerNativeAlarm(n) == [n EXCEPT !.starting = @ + 1]

\* triggerNativeAlarm after the await resolved (lines 133-180).
scheduleResolved(n) ==
    LET main == FreshId(TimerIds(n))
        n1 == setInterval([n EXCEPT !.vibrating = @ \/ n.vibrate,
                                    !.notifications = Min(@ + 2, MaxNotifications)],
                          "notify2000")
        n2 == [n1 EXCEPT !.interval = main]
        vib == FreshId(TimerIds(n2))
    IN [setInterval(n2, "vibrate1000") EXCEPT !.vibrationInterval = vib,
                                              !.starting = @ - 1]

\* triggerNativeAlarm when the await rejected: the catch of lines 182-184.
scheduleRejected(n) == [n EXCEPT !.starting = @ - 1]

native_triggerAlarm(n, named) ==
    IF n.rendered.isRinging THEN n
    ELSE LET n1 == [n EXCEPT !.store.isRinging = TRUE, !.rings = @ + 1]
             n2 == IF n.isNative /\ named THEN triggerNativeAlarm(n1) ELSE n1
             tone == FreshId(TimerIds(n2))
             n3 == IF n.sound /\ ~n.isNative
                   THEN [setInterval(createWebAudioAlarm(n2), "tone")
                           EXCEPT !.interval = tone]
                   ELSE IF n.vibrate /\ ~n.isNative
                   THEN [setInterval(n2, "vibrate500") EXCEPT !.interval = tone]
                   ELSE n2
             vibrationInterval == FreshId(TimerIds(n3))
             existingInterval == n3.interval
         IN IF n.isNative /\ n.vibrate
            THEN [setInterval(n3, "vibrate1500")
                    EXCEPT !.interval = IF existingInterval # Null
                                        THEN existingInterval
                                        ELSE vibrationInterval]
            ELSE n3

\* stopAlarm up to its first await (lines 241-274); on the web it has no
\* await and runs to its end.
native_stopAlarm(n) ==
    LET n1 == clearInterval(clearInterval(n, n.interval), n.vibrationInterval)
        n2 == [n1 EXCEPT !.interval = Null, !.vibrationInterval = Null,
                         !.oscillators = @ \ {n.oscillator},
                         !.oscillator = Null,
                         !.vibrating = FALSE]
    IN IF n.isNative THEN [n2 EXCEPT !.stopping = @ + 1]
       ELSE [n2 EXCEPT !.store.isRinging = FALSE]

\* stopAlarm after its awaits (lines 274-293): every notification that
\* getPending and getDeliveredNotifications return is cancelled or removed,
\* whoever scheduled it, then setState(isRinging: false).
stopAlarmFinish(n) ==
    [n EXCEPT !.notifications = 0, !.foreign = FALSE,
              !.store.isRinging = FALSE, !.stopping = @ - 1]

native_deactivateAlarm(n) ==
    [native_stopAlarm(n) EXCEPT !.store.isActive = FALSE,
                                !.store.isRinging = FALSE]

\* activateAlarm up to its await; on the web requestNotificationPermission
\* awaits nothing and the state is set in the same task.
native_activateAlarm(n) ==
    IF n.isNative THEN [n EXCEPT !.activating = @ + 1]
    ELSE [n EXCEPT !.store.isActive = TRUE]

native_render(n) == [n EXCEPT !.rendered = n.store]

\* The body of an interval timer.
timerTick(n, t) ==
    IF t.kind = "notify2000"
    THEN [n EXCEPT !.notifications = Min(@ + 1, MaxNotifications),
                   !.vibrating = @ \/ n.vibrate]
    ELSE [n EXCEPT !.vibrating = TRUE]

\* --------------------------------------------------- actions of the hook
\* The hook is driven as Index drives useAlarm: activate when not active,
\* trigger from the effect of a render that sees Armed, stop from Ringing,
\* deactivate when active; a click is followed by its render.
NativeStep(n) ==
    native' = n /\ UNCHANGED <<store, rendered, refs, env, hist, part006, nativeGeo, wakeLock>>

NActivateAlarm ==
    /\ ~native.rendered.isActive /\ native.activating = 0
    /\ NativeStep(native_render(native_activateAlarm(native)))

NActivateDone ==
    /\ native.activating > 0
    /\ NativeStep([native EXCEPT !.store.isActive = TRUE, !.activating = @ - 1])

NTriggerAlarm(named) ==
    /\ Armed(native.rendered) /\ ~native.store.isRinging
    /\ native.rings < MaxRings
    /\ NativeStep(native_triggerAlarm(native, named))

NScheduleResolved ==
    /\ native.starting > 0
    /\ NativeStep(scheduleResolved(native))

NScheduleRejected ==
    /\ native.starting > 0
    /\ NativeStep(scheduleRejected(native))

\* handleStopAlarm: stopAlarm(); deactivateAlarm().
NStopAlarm ==
    /\ native.rendered.isRinging
    /\ native.stopping + 2 <= MaxInFlight
    /\ NativeStep(native_render(native_deactivateAlarm(native_stopAlarm(native))))

NDeactivateAlarm ==
    /\ native.rendered.isActive
    /\ native.stopping + 1 <= MaxInFlight
    /\ NativeStep(native_render(native_deactivateAlarm(native)))

NStopFinish ==
    /\ native.stopping > 0
    /\ NativeStep(stopAlarmFinish(native))

NTimerTick ==
    \E t \in native.timers : NativeStep(timerTick(native, t))

\* Another part of the application schedules a local notification of its own
\* (the test notification with id 1, the tracking notice): the field foreign
\* says that a notification that the alarm did not create is pending or shown.
NForeignNotification ==
    /\ native.isNative /\ ~native.foreign
    /\ NativeStep([native EXCEPT !.foreign = TRUE])

NRender ==
    /\ native.store # native.rendered
    /\ NativeStep(native_render(native))

NextNative ==
    \/ NActivateAlarm
    \/ NActivateDone
    \/ \E named \in BOOLEAN : NTriggerAlarm(named)
    \/ NScheduleResolved
    \/ NScheduleRejected
    \/ NStopAlarm
    \/ NDeactivateAlarm
    \/ NStopFinish
    \/ NTimerTick
    \/ NForeignNotification
    \/ NRender

SpecNative == InitNative /\ [][NextNative]_vars

\* ================================================= part_006 useNativeAlarm
\* triggerAlarm up to its await (lines 142-151); without the await (web, or
\* sound off) it runs to its end (lines 190-219).
part006_afterSchedule(n) ==
    LET tone == FreshId(TimerIds(n))
        n1 == IF ~n.isNative /\ n.sound
              THEN [setInterval(createWebAudioAlarm(n), "tone")
                      EXCEPT !.interval = tone]
              ELSE n
    IN [n1 EXCEPT !.vibrating = @ \/ n.vibrate]

part006_triggerAlarm(n) ==
    IF n.rendered.isRinging THEN n
    ELSE LET n1 == [n EXCEPT !.store.isRinging = TRUE, !.rings = @ + 1]
         IN IF n.isNative /\ n.sound
            THEN [n1 EXCEPT !.starting = @ + 1]
            ELSE part006_afterSchedule(n1)

\* triggerAlarm after LocalNotifications.schedule resolved (lines 166-219).
part006_scheduleResolved(n) ==
    LET id == FreshId(TimerIds(n))
        n1 == [setInterval(n, "notify3000")
                 EXCEPT !.interval = id,
                        !.notifications = Min(@ + 1, MaxNotifications),
                        !.starting = @ - 1]
    IN part006_afterSchedule(n1)

\* ... and when it rejected: the promise of triggerAlarm rejects.
part006_scheduleRejected(n) == [n EXCEPT !.starting = @ - 1]

\* stopAlarm up to its await (lines 222-248); on the web it ends there.
part006_stopAlarm(n) ==
    LET n1 == [clearInterval(n, n.interval)
                 EXCEPT !.store.isRinging = FALSE,
                        !.interval = Null,
                        !.oscillators = @ \ {n.oscillator},
                        !.oscillator = Null,
                        !.vibrating = FALSE]
    IN IF n.isNative THEN [n1 EXCEPT !.stopping = @ + 1] ELSE n1

\* stopAlarm after getPending: the pending notifications are cancelled.
part006_stopAlarmFinish(n) ==
    [n EXCEPT !.notifications = 0, !.stopping = @ - 1]

part006_activateAlarm(n) == [n EXCEPT !.store.isActive = TRUE]

part006_deactivateAlarm(n) ==
    [part006_stopAlarm(n) EXCEPT !.store.isActive = FALSE,
                                 !.store.isRinging = FALSE]

\* testAlarm (lines 267-281): stops what rings; otherwise one notification
\* on the native platform (testAlarmSound, lines 45-69) and the real alarm
\* on the web.
part006_testAlarm(n) ==
    IF n.rendered.isRinging THEN part006_stopAlarm(n)
    ELSE IF n.isNative THEN [n EXCEPT !.testing = @ + 1]
    ELSE part006_triggerAlarm(n)

part006_testAlarmSound(n) ==
    [n EXCEPT !.notifications = Min(@ + 1, MaxNotifications),
              !.testing = @ - 1]

part006_render(n) == [n EXCEPT !.rendered = n.store]

part006_timerTick(n, t) ==
    IF t.kind = "notify3000"
    THEN [n EXCEPT !.notifications = Min(@ + 1, MaxNotifications),
                   !.vibrating = @ \/ n.vibrate]
    ELSE [n EXCEPT !.vibrating = @ \/ n.vibrate]

\* The hook is driven as Index and SettingsScreen drive useAlarm.
Part006Step(n) ==
    part006' = n /\ UNCHANGED <<store, rendered, refs, env, hist, native, nativeGeo, wakeLock>>

PActivateAlarm ==
    /\ ~part006.rendered.isActive
    /\ Part006Step(part006_render(part006_activateAlarm(part006)))

PTriggerAlarm ==
    /\ Armed(part006.rendered) /\ ~part006.store.isRinging
    /\ part006.rings < MaxRings
    /\ Part006Step(part006_triggerAlarm(part006))

PScheduleResolved ==
    /\ part006.starting > 0
    /\ Part006Step(part006_scheduleResolved(part006))

PScheduleRejected ==
    /\ part006.starting > 0
    /\ Part006Step(part006_scheduleRejected(part006))

\* handleStopAlarm: stopAlarm(); deactivateAlarm().
PStopAlarm ==
    /\ part006.rendered.isRinging
    /\ part006.stopping + 2 <= MaxInFlight
    /\ Part006Step(part006_render(
            part006_deactivateAlarm(part006_stopAlarm(part006))))

PDeactivateAlarm ==
    /\ part006.rendered.isActive /\ ~part006.rendered.isRinging
    /\ part006.stopping + 1 <= MaxInFlight
    /\ Part006Step(part006_render(part006_deactivateAlarm(part006)))

PStopFinish ==
    /\ part006.stopping > 0
    /\ Part006Step(part006_stopAlarmFinish(part006))

\* The Test Alarm button (SettingsScreen.tsx:400-403).
PTestAlarm ==
    /\ part006.sound \/ part006.vibrate
    /\ part006.stopping + 1 <= MaxInFlight
    /\ part006.testing + 1 <= MaxInFlight
    /\ part006.rendered.isRinging \/ part006.rings < MaxRings
    /\ Part006Step(part006_render(part006_testAlarm(part006)))

PTestResolved ==
    /\ part006.testing > 0
    /\ Part006Step(part006_testAlarmSound(part006))

PTimerTick ==
    \E t \in part006.timers : Part006Step(part006_timerTick(part006, t))

PRender ==
    /\ part006.store # part006.rendered
    /\ Part006Step(part006_render(part006))

NextPart006 ==
    \/ PActivateAlarm
    \/ PTriggerAlarm
    \/ PScheduleResolved
    \/ PScheduleRejected
    \/ PStopAlarm
    \/ PDeactivateAlarm
    \/ PStopFinish
    \/ PTestAlarm
    \/ PTestResolved
    \/ PTimerTick
    \/ PRender

SpecPart006 == InitPart006 /\ [][NextPart006]_vars

\* ================================================ useNativeGeolocation.ts
WatchIds(g) == {w.id : w \in g.watches}

\* The id that the platform gives to a new watch.
NewWatchId(g) == FreshId(WatchIds(g) \cup g.pending \cup {g.watchId})

\* startWatching (lines 194-259).  On the native platform the plugin
\* registers the watch and the promise of its id is pending; in the browser
\* watchPosition returns the id at once.  Neither branch looks at watchIdRef.
geo_startWatching(g) ==
    LET id == NewWatchId(g)
    IN IF g.isNative
       THEN [g EXCEPT !.watches = @ \cup {[id |-> id, kind |-> "foreground"]},
                      !.pending = @ \cup {id}]
       ELSE [g EXCEPT !.watches = @ \cup {[id |-> id, kind |-> "browser"]},
                      !.watchId = id, !.store.isWatching = TRUE]

\* startBackgroundTracking (lines 122-180): nothing in the browser; on the
\* native platform addWatcher registers the watcher and its id is awaited.
geo_startBackgroundTracking(g) ==
    LET id == NewWatchId(g)
    IN IF ~g.isNative THEN g
       ELSE [g EXCEPT !.watches = @ \cup {[id |-> id, kind |-> "background"]},
                      !.pending = @ \cup {id}, !.stopLast = FALSE]

\* The awaited id arrives: watchIdRef.current = id, then the setState of
\* line 224 or of line 172.
geo_watchResolved(g, w) ==
    [g EXCEPT !.pending = @ \ {w.id}, !.watchId = w.id,
              !.store.isWatching = TRUE,
              !.store.isBackgroundTracking = @ \/ w.kind = "background"]

\* The plugin rejects: no watch was registered, the catch sets the error.
geo_watchRejected(g, w) ==
    [g EXCEPT !.pending = @ \ {w.id}, !.watches = @ \ {w},
              !.store.error = 1]

\* stopWatching (lines 261-271).  The watch named by the ref is cleared; on
\* the native platform the rest runs after the await of clearWatch.
geo_stopWatching(g) ==
    IF g.watchId = Null THEN [g EXCEPT !.store.isWatching = FALSE]
    ELSE LET g1 == [g EXCEPT !.watches = {w \in @ : w.id # g.watchId}]
         IN IF g.isNative THEN [g1 EXCEPT !.stoppingWatch = @ + 1]
            ELSE [g1 EXCEPT !.watchId = Null, !.store.isWatching = FALSE]

geo_stopWatchingFinish(g) ==
    [g EXCEPT !.stoppingWatch = @ - 1, !.watchId = Null,
              !.store.isWatching = FALSE]

\* stopBackgroundTracking (lines 182-192).  removeWatcher exists on the
\* native platform only: in the browser the call rejects, the catch logs, the
\* ref keeps its id and only the state is set.
geo_stopBackgroundTracking(g) ==
    IF g.watchId = Null \/ ~g.isNative
    THEN [g EXCEPT !.store.isWatching = FALSE,
                   !.store.isBackgroundTracking = FALSE, !.stopLast = TRUE]
    ELSE [g EXCEPT !.watches = {w \in @ : w.id # g.watchId},
                   !.stoppingBackground = @ + 1, !.stopLast = TRUE]

geo_stopBackgroundFinish(g) ==
    [g EXCEPT !.stoppingBackground = @ - 1, !.watchId = Null,
              !.store.isWatching = FALSE,
              !.store.isBackgroundTracking = FALSE]

\* The callbacks of a registered watch: a fix sets position and clears the
\* error, an error sets the error.
geo_position(g, p) == [g EXCEPT !.store.position = p, !.store.error = Null]

geo_error(g, code) == [g EXCEPT !.store.error = code]

\* ------------------------------------------------ actions of the hook
\* The operations of the returned API, called in any order.
GeoStep(g) ==
    nativeGeo' = g
      /\ UNCHANGED <<store, rendered, refs, env, hist, native, part006, wakeLock>>

GStartWatching ==
    /\ Cardinality(nativeGeo.watches) < MaxWatches
    /\ GeoStep(geo_startWatching(nativeGeo))

GStartBackgroundTracking ==
    /\ nativeGeo.isNative
    /\ Cardinality(nativeGeo.watches) < MaxWatches
    /\ GeoStep(geo_startBackgroundTracking(nativeGeo))

GWatchResolved ==
    \E w \in nativeGeo.watches :
       w.id \in nativeGeo.pending /\ GeoStep(geo_watchResolved(nativeGeo, w))

GWatchRejected ==
    \E w \in nativeGeo.watches :
       w.id \in nativeGeo.pending /\ GeoStep(geo_watchRejected(nativeGeo, w))

GStopWatching ==
    /\ nativeGeo.stoppingWatch < MaxInFlight
    /\ nativeGeo.store.isWatching \/ nativeGeo.watchId # Null
    /\ GeoStep(geo_stopWatching(nativeGeo))

GStopWatchingFinish ==
    /\ nativeGeo.stoppingWatch > 0
    /\ GeoStep(geo_stopWatchingFinish(nativeGeo))

GStopBackgroundTracking ==
    /\ nativeGeo.stoppingBackground < MaxInFlight
    /\ \/ nativeGeo.store.isWatching \/ nativeGeo.watchId # Null
       \/ nativeGeo.pending # {}
    /\ GeoStep(geo_stopBackgroundTracking(nativeGeo))

GStopBackgroundFinish ==
    /\ nativeGeo.stoppingBackground > 0
    /\ GeoStep(geo_stopBackgroundFinish(nativeGeo))

GPosition(p) ==
    /\ nativeGeo.watches # {}
    /\ GeoStep(geo_position(nativeGeo, p))

GError(code) ==
    /\ nativeGeo.watches # {}
    /\ GeoStep(geo_error(nativeGeo, code))

NextNativeGeo ==
    \/ GStartWatching
    \/ GStartBackgroundTracking
    \/ GWatchResolved
    \/ GWatchRejected
    \/ GStopWatching
    \/ GStopWatchingFinish
    \/ GStopBackgroundTracking
    \/ GStopBackgroundFinish
    \/ \E p \in Points : GPosition(p)
    \/ \E code \in ErrorCodes : GError(code)

InitNativeGeo ==
    /\ InitIndex
    /\ native = NativeStart(FALSE)
    /\ part006 = Part006Start(FALSE, DEFAULT_SETTINGS.sound, DEFAULT_SETTINGS.vibrate)
    /\ \E isNative \in BOOLEAN : nativeGeo = NativeGeoStart(isNative)
    /\ wakeLock = WakeLockStart(FALSE, TRUE)

SpecNativeGeo == InitNativeGeo /\ [][NextNativeGeo]_vars

\* ===================================================== useWakeLock
\* part_004.  requestWakeLock (lines 26-57): without the API only the state
\* is set; with it the sentinel is awaited.
requestWakeLock(k) ==
    IF ~k.supported
    THEN [k EXCEPT !.store.error = IF k.isNative THEN Null ELSE 1,
                   !.store.isActive = k.isNative, !.lost = FALSE]
    ELSE [k EXCEPT !.requesting = @ + 1, !.lost = FALSE]

\* The sentinel arrives (lines 41-50): the ref holds it, its release event
\* has a listener, isActive is set.
wake_requestResolved(k) ==
    LET s == FreshId(k.held \cup {k.ref})
    IN [k EXCEPT !.requesting = @ - 1, !.ref = s, !.held = @ \cup {s},
                 !.store.isActive = TRUE, !.store.error = Null,
                 !.lost = FALSE]

\* The request rejects (lines 51-55).
wake_requestRejected(k) ==
    [k EXCEPT !.requesting = @ - 1, !.store.error = 1,
              !.store.isActive = FALSE]

\* The release listener (lines 43-46): it sets isActive and leaves the ref.
wake_onRelease(k) == [k EXCEPT !.store.isActive = FALSE]

\* releaseWakeLock (lines 59-69): release() of the sentinel in the ref, whose
\* release event fires if it was held; the rest runs after the await.
releaseWakeLock(k) ==
    IF k.ref = Null THEN k
    ELSE LET k1 == [k EXCEPT !.held = @ \ {k.ref}, !.releasing = @ + 1,
                             !.lost = FALSE]
         IN IF k.ref \in k.held THEN wake_onRelease(k1) ELSE k1

wake_releaseFinish(k) ==
    [k EXCEPT !.releasing = @ - 1, !.ref = Null, !.store.isActive = FALSE]

\* The system releases a sentinel: its release event fires.
wake_systemRelease(k, s) ==
    [wake_onRelease(k) EXCEPT !.held = @ \ {s}, !.lost = TRUE]

\* handleVisibilityChange (lines 73-77), with the isActive of the render
\* that registered it.
handleVisibilityChange(k) ==
    IF k.visible /\ k.rendered.isActive /\ k.ref = Null
    THEN requestWakeLock(k) ELSE k

\* The page is hidden: the platform releases every screen wake lock, then
\* visibilitychange is dispatched.
wake_hide(k) ==
    LET k1 == IF k.held = {} THEN k
              ELSE [wake_onRelease(k) EXCEPT !.held = {}, !.lost = TRUE]
    IN handleVisibilityChange([k1 EXCEPT !.visible = FALSE])

wake_show(k) == handleVisibilityChange([k EXCEPT !.visible = TRUE])

\* ------------------------------------------------ actions of the hook
WakeStep(k) ==
    wakeLock' = k
      /\ UNCHANGED <<store, rendered, refs, env, hist, native, part006, nativeGeo>>

WRequestWakeLock ==
    /\ wakeLock.requesting + Cardinality(wakeLock.held) < MaxLocks
    /\ WakeStep(requestWakeLock(wakeLock))

\* The platform grants a screen wake lock to a visible page only.
WRequestResolved ==
    /\ wakeLock.requesting > 0 /\ wakeLock.visible
    /\ WakeStep(wake_requestResolved(wakeLock))

WRequestRejected ==
    /\ wakeLock.requesting > 0
    /\ WakeStep(wake_requestRejected(wakeLock))

WReleaseWakeLock ==
    /\ wakeLock.releasing < MaxInFlight
    /\ wakeLock.ref # Null
    /\ WakeStep(releaseWakeLock(wakeLock))

WReleaseFinish ==
    /\ wakeLock.releasing > 0
    /\ WakeStep(wake_releaseFinish(wakeLock))

WSystemRelease ==
    \E s \in wakeLock.held : WakeStep(wake_systemRelease(wakeLock, s))

WHide ==
    /\ wakeLock.visible
    /\ WakeStep(wake_hide(wakeLock))

WShow ==
    /\ ~wakeLock.visible
    /\ wakeLock.requesting < MaxLocks
    /\ WakeStep(wake_show(wakeLock))

WRender ==
    /\ wakeLock.rendered.isActive # wakeLock.store.isActive
    /\ WakeStep([wakeLock EXCEPT !.rendered.isActive = wakeLock.store.isActive])

NextWakeLock ==
    \/ WRequestWakeLock
    \/ WRequestResolved
    \/ WRequestRejected
    \/ WReleaseWakeLock
    \/ WReleaseFinish
    \/ WSystemRelease
    \/ WHide
    \/ WShow
    \/ WRender

InitWakeLock ==
    /\ InitIndex
    /\ native = NativeStart(FALSE)
    /\ part006 = Part006Start(FALSE, DEFAULT_SETTINGS.sound, DEFAULT_SETTINGS.vibrate)
    /\ nativeGeo = NativeGeoStart(FALSE)
    /\ \E isNative \in BOOLEAN, supported \in BOOLEAN :
          wakeLock = WakeLockStart(isNative, supported)

SpecWakeLock == InitWakeLock /\ [][NextWakeLock]_vars

\* =============================================================== claims
Inside(s) ==
    /\ s.position # Null /\ s.destination # Null
    /\ calculateDistance(s.position, s.destination) <= s.alertRadius
PositionStep == (\E p \in Points : OneShotFix(p) \/ WatchFix(p)) \/ Render

\* C1: within one armed session (hist.starts is reset by arm) the alarm start
\* of triggerAlarm runs at most once, whatever position updates arrive, and
\* at most one interval timer and one oscillator ever exist.
C1_StartsAtMostOnce ==
    /\ hist.starts <= 1
    /\ Cardinality(env.timers) <= 1
    /\ Cardinality(env.oscillators) <= 1

\* C1 witness: the alarm has started once and rings, and a further fix
\* within the radius, different from the one that triggered, is queued.
C1_Witness ==
    /\ hist.starts = 1 /\ rendered.isRinging /\ store.isRinging
    /\ Inside(rendered) /\ Inside(store)
    /\ store.position # rendered.position
    /\ env.timers # {}

\* C2: when stopAlarm or deactivateAlarm returns, every interval timer of the
\* alarm is cleared, the oscillator is released and vibration is zeroed; and
\* no timer ticks while the alarm is not ringing.
C2_StopSilencesAlarm ==
    [][/\ (NStopAlarm \/ NDeactivateAlarm) =>
            /\ native'.timers = {}
            /\ native'.oscillator = Null /\ native'.oscillators = {}
            /\ ~native'.vibrating
       /\ NTimerTick => native.store.isRinging]_vars

\* C3: in every reachable state of the native hook, Idle (isActive and
\* isRinging both false) implies that no interval timer is running and that
\* no alarm start is still waiting to schedule notifications.
C3_IdleHasNoOutputs ==
    Idle(native.store) => (native.timers = {} /\ native.starting = 0)

\* C4: every fix within the radius delivered while Armed makes the alarm ring
\* when it is processed: once all delivered updates are rendered and the
\* session is still active, a session that saw such a fix is ringing.
C4_InsideFixAlwaysRings ==
    (hist.sawInside /\ store = rendered /\ store.isActive) => store.isRinging

\* C5: once ringing, a position update (the fix, or the render that processes
\* it) leaves the alarm ringing and neither starts nor stops a timer or an
\* oscillator.
C5_RingingIsSticky ==
    [][(PositionStep /\ store.isRinging) =>
            /\ store'.isRinging
            /\ env'.timers = env.timers
            /\ env'.oscillators = env.oscillators
            /\ hist'.starts = hist.starts]_vars

\* C5 witness: the alarm rings and a fix back outside the radius has been
\* processed.
C5_Witness ==
    /\ rendered.isRinging /\ store = rendered
    /\ rendered.position # Null /\ rendered.destination # Null
    /\ rendered.distanceToDestination > rendered.alertRadius
    /\ env.timers # {}

\* C6: the boundary is inclusive.  The alarm starts ringing only at a distance
\* of at most the radius, and a render that sees Armed at a distance equal to
\* the radius has triggered it.
C6_InclusiveBoundary ==
    [][/\ (~store.isRinging /\ store'.isRinging) => Inside(store')
       /\ (/\ Armed(rendered')
           /\ rendered'.position # Null /\ rendered'.destination # Null
           /\ calculateDistance(rendered'.position, rendered'.destination)
                = rendered'.alertRadius)
          => store'.isRinging]_vars

\* C6 witness: the render that triggered saw a distance equal to the radius.
C6_Witness ==
    /\ Armed(rendered) /\ store.isRinging /\ hist.starts = 1
    /\ rendered.position # Null /\ rendered.destination # Null
    /\ calculateDistance(rendered.position, rendered.destination)
         = rendered.alertRadius

\* C7: while Idle, a position update (the fix, or the render that processes
\* it) leaves the alarm Idle and starts no timer and no oscillator.
C7_IdleIgnoresUpdates ==
    [][(PositionStep /\ Idle(store)) =>
            /\ Idle(store')
            /\ env'.timers = env.timers
            /\ env'.oscillators = env.oscillators
            /\ hist'.starts = hist.starts]_vars

\* C7 witness: Idle, with a fix at the destination itself processed.
C7_Witness ==
    /\ Idle(rendered) /\ store = rendered
    /\ Inside(rendered) /\ rendered.distanceToDestination = 0
    /\ env.timers = {}

\* C8: acknowledge from Ringing leads to Idle with the destination cleared,
\* the watch stopped, no timer or oscillator left and the current trip ended
\* as completed; and from Idle only a new arm makes the alarm ring again.
C8_AcknowledgeLeadsToIdle ==
    [][/\ ClickStopAlarm =>
            /\ Idle(store') /\ Idle(rendered')
            /\ store'.destination = Null
            /\ refs'.watchId = Null /\ env'.watches = {} /\ ~store'.isWatching
            /\ env'.timers = {} /\ env'.oscillators = {}
            /\ refs.currentTripId # Null /\ refs'.currentTripId = Null
            /\ \E i \in 1..Len(store'.trips) :
                 /\ store'.trips[i].id = refs.currentTripId
                 /\ store'.trips[i].ended /\ store'.trips[i].completed
       /\ (Idle(store) /\ ~ClickActivateAlarm) => ~store'.isRinging]_vars

\* C8 witness: acknowledged, and a later fix at the old destination has been
\* processed without ringing.
C8_Witness ==
    /\ Idle(rendered) /\ store = rendered
    /\ Len(rendered.trips) > 0
    /\ rendered.trips[1].ended /\ rendered.trips[1].completed
    /\ rendered.position = rendered.trips[1].destination
    /\ rendered.destination = Null
    /\ hist.sawInside

\* C9: disarm from Armed, the alarm never started in this session, leads to
\* Idle and ends the current trip with completed = false.
C9_DisarmFromArmed ==
    [][(ClickDeactivateAlarm /\ hist.starts = 0) =>
            /\ Idle(store') /\ Idle(rendered')
            /\ env'.timers = {}
            /\ refs.currentTripId # Null /\ refs'.currentTripId = Null
            /\ \E i \in 1..Len(store'.trips) :
                 /\ store'.trips[i].id = refs.currentTripId
                 /\ store'.trips[i].ended /\ ~store'.trips[i].completed]_vars

\* C9 witness: disarmed without the alarm ever starting.
C9_Witness ==
    /\ Idle(rendered) /\ hist.starts = 0
    /\ Len(rendered.trips) > 0
    /\ rendered.trips[1].ended /\ ~rendered.trips[1].completed
    /\ refs.currentTripId = Null

\* C10 as claimed: after handleDeactivateAlarm the destination is null.
C10_DisarmClearsFence ==
    [][ClickDeactivateAlarm => store'.destination = Null]_vars

\* C10 amended: handleDeactivateAlarm, from Armed or while the alarm rings,
\* leads to Idle and leaves the destination as it was, not null.
C10_DisarmKeepsFence ==
    [][ClickDeactivateAlarm =>
            /\ Idle(store')
            /\ store'.destination = store.destination
            /\ store'.destination # Null]_vars

\* C10 witness: disarmed after the alarm had started; the destination is kept.
C10_Witness ==
    /\ Idle(rendered) /\ hist.starts = 1
    /\ rendered.destination # Null
    /\ Len(rendered.trips) > 0
    /\ rendered.trips[1].ended /\ ~rendered.trips[1].completed
    /\ rendered.trips[1].destination = rendered.destination

\* C11: arming while the handler sees no position fix or no destination
\* fails: the alarm stays Idle, no watch is registered and no trip is
\* recorded or saved.
C11_ArmWithoutFixFails ==
    [][(ClickActivateAlarm
          /\ (rendered.destination = Null \/ rendered.position = Null)) =>
            /\ Idle(store') /\ Idle(rendered')
            /\ env'.watches = {} /\ refs'.watchId = Null /\ ~store'.isWatching
            /\ store'.trips = store.trips
            /\ env'.savedTrips = env.savedTrips
            /\ refs'.currentTripId = refs.currentTripId
            /\ env'.now = env.now]_vars

\* C11 witness: the last arm failed for want of a position fix, with a
\* destination set; nothing is armed, watched or recorded.
C11_Witness ==
    /\ hist.armFailed
    /\ rendered.destination # Null /\ rendered.position = Null
    /\ Idle(store) /\ env.watches = {} /\ store.trips = <<>>

\* C12: arming with a destination set and a position fix known activates
\* the alarm (the render that follows sees Armed), registers the one position
\* watch, and puts exactly one new trip, with that destination and radius and
\* not ended, in front of the trips recorded before.
C12_ArmStartsSession ==
    [][(ClickActivateAlarm
          /\ rendered.destination # Null /\ rendered.position # Null) =>
            /\ Armed(rendered') /\ store'.isActive
            /\ store'.isWatching
            /\ refs'.watchId # Null /\ env'.watches = {refs'.watchId}
            /\ Len(store'.trips) = Min(Len(store.trips) + 1, MAX_TRIPS)
            /\ store'.trips[1] =
                  [id |-> refs'.currentTripId,
                   destination |-> rendered.destination,
                   ended |-> FALSE, completed |-> FALSE,
                   alertDistance |-> rendered.alertRadius]
            /\ \A i \in 2..Len(store'.trips) :
                  /\ store'.trips[i] = store.trips[i - 1]
                  /\ store'.trips[i].id # refs'.currentTripId
            /\ env'.savedTrips = store'.trips]_vars

\* C12 witness: armed a second time; the new trip is in front of the trip of
\* the first session, and the watch runs.
C12_Witness ==
    /\ Armed(rendered) /\ ~hist.armFailed
    /\ Len(rendered.trips) = 2
    /\ rendered.trips[1].id = refs.currentTripId /\ ~rendered.trips[1].ended
    /\ rendered.trips[2].ended
    /\ Cardinality(env.watches) = 1 /\ rendered.isWatching

\* C13: handleActivateAlarm called while Armed (the destination and the
\* radius are those of the running session) records no trip, registers no
\* watch and leaves the session as it was.
C13_RearmIsNoOp ==
    [][(HandlerActivateAlarm /\ Armed(store) /\ Armed(rendered)) =>
            /\ store'.trips = store.trips
            /\ env'.savedTrips = env.savedTrips
            /\ refs'.currentTripId = refs.currentTripId
            /\ env'.watches = env.watches
            /\ store'.isActive = store.isActive]_vars

\* C14: handleSetDestination while Armed replaces the destination in the
\* same step, for the state and for the render that follows; from then on
\* the alarm starts ringing only within the radius of the destination in
\* force, and a render that sees Armed within that radius starts it.
C14_FenceReplacedAtomically ==
    [][/\ \A d \in Dests :
            (HandlerSetDestination(d) /\ Armed(rendered)) =>
                /\ store'.destination = d /\ rendered'.destination = d
                /\ store'.isActive
       /\ (~store.isRinging /\ store'.isRinging) => Inside(store')
       /\ (hist'.replaced # Null /\ Armed(rendered') /\ Inside(rendered'))
            => store'.isRinging]_vars

\* C14 witness: the destination was replaced while Armed, and a later fix
\* within the radius of the old destination but outside that of the new one
\* has been processed without ringing.
C14_Witness ==
    /\ hist.replaced # Null /\ hist.fixSinceReplace
    /\ Armed(store) /\ store = rendered
    /\ hist.starts = 0
    /\ calculateDistance(store.position, hist.replaced) <= store.alertRadius
    /\ ~Inside(store)

C18_TestToneEnds ==
    \A i \in 1..MaxTests : (i \in TestIds(World)) ~> (i \notin TestIds(World))

\* C18 witness: of two test tones started one after the other, the first
\* has ended and the second still sounds.
C18_Witness ==
    TestIds(World) = {2}

\* The toggle of part_006, for C18: on the web, where its test is the alarm
\* itself, testAlarm called while it rings stops what the last start holds
\* in the refs (its timer and its oscillator) and the vibration; on the
\* native platform the test is one notification and starts no timer.
ToggleTestStops ==
    [][/\ (PTestAlarm /\ part006.rendered.isRinging /\ ~part006.isNative) =>
            /\ part006.interval \notin TimerIds(part006')
            /\ part006.oscillator \notin part006'.oscillators
            /\ part006'.interval = Null /\ part006'.oscillator = Null
            /\ ~part006'.vibrating /\ ~part006'.store.isRinging
       /\ (PTestAlarm /\ ~part006.rendered.isRinging /\ part006.isNative) =>
            part006'.timers = part006.timers]_vars

\* C19: updateSettings, in whatever state it is called, sets the settings it
\* names, leaves the other settings as they were, and leaves isActive and
\* isRinging as they were.
C19_UpdateSettingsMerges ==
    [][\A newSettings \in Partials :
          AlarmUpdateSettings(newSettings) =>
            /\ \A f \in DOMAIN DEFAULT_SETTINGS :
                  store'[f] = IF f \in DOMAIN newSettings
                              THEN newSettings[f] ELSE store[f]
            /\ store'.isActive = store.isActive
            /\ store'.isRinging = store.isRinging
            /\ rendered' = store']_vars

\* C19 witness: while the alarm rings, sound was switched off and the tone
\* changed; the volume and vibrate keep their defaults and the alarm rings.
C19_Witness ==
    /\ store.isRinging /\ store.isActive /\ store = rendered
    /\ ~store.sound /\ store.tone = "melody"
    /\ store.vibrate = DEFAULT_SETTINGS.vibrate
    /\ store.volume = DEFAULT_SETTINGS.volume

\* C20: updateSettings leaves the running alarm pattern (its timer, its
\* oscillator and the settings its callback captured) as it was; the next
\* testAlarm sounds at the tone and volume now set, and the next triggerAlarm
\* captures the settings now set.
C20_RunningPatternKeepsSettings ==
    [][/\ \A newSettings \in Partials :
            AlarmUpdateSettings(newSettings) =>
                /\ env'.pattern = env.pattern
                /\ env'.timers = env.timers
                /\ env'.oscillators = env.oscillators
       /\ (AlarmTest /\ store.sound) =>
            \E t \in env'.testTones \ env.testTones :
                t.tone = store.tone /\ t.volume = store.volume
       /\ (AlarmTrigger /\ (store.sound \/ store.vibrate)) =>
            env'.pattern = [f \in DOMAIN DEFAULT_SETTINGS |-> store[f]]]_vars

\* C20 witness: the alarm rings with the pattern captured at the trigger
\* (volume 70, tone gentle); the settings were changed since (volume 30,
\* tone melody), and a test tone started after the change sounds with them.
C20_Witness ==
    /\ store.isRinging
    /\ env.pattern.volume = 70 /\ env.pattern.tone = "gentle"
    /\ store.volume = 30 /\ store.tone = "melody"
    /\ \E t \in env.testTones : t.volume = 30 /\ t.tone = "melody"

\* C16: in every reachable state of the hook, isRinging implies isActive.
C16_RingingImpliesActive ==
    part006.store.isRinging => part006.store.isActive

\* C17: testAlarm, called while Idle, Armed or Ringing, leaves isActive and
\* isRinging as they were.
C17_TestKeepsState ==
    [][PTestAlarm =>
            /\ part006'.store.isActive = part006.store.isActive
            /\ part006'.store.isRinging = part006.store.isRinging]_vars

\* C21: stopAlarm cancels or removes only the notifications that the alarm
\* scheduled: a notification that the alarm did not create and that is
\* pending or shown when stopAlarm runs is still there when stopAlarm ends.
C21_StopKeepsForeignNotifications ==
    [][NStopFinish => native'.foreign = native.foreign]_vars

\* C22: every interval timer that an alarm start created is held in a handle
\* that stopAlarm clears (intervalRef.current or its vibrationInterval): no
\* start path overwrites or drops the handle of a live timer.
C22_TimersAreHeld ==
    TimerIds(native) \subseteq {native.interval, native.vibrationInterval}

\* C23: stopAlarm is idempotent and safe in any state: called when nothing
\* is running (not ringing, no interval, oscillator or gain node held) it
\* changes nothing, and called twice in a row it gives the state that one
\* call gives.  Checked for stopAlarm of useAlarm.ts in every reachable state.
NothingRunning(w) ==
    /\ ~w.store.isRinging
    /\ w.refs.interval = Null /\ w.refs.oscillator = Null
    /\ w.refs.gainNode = Null

C23_StopIsIdempotent ==
    /\ stopAlarm(stopAlarm(World)) = stopAlarm(World)
    /\ NothingRunning(World) => stopAlarm(World) = World

\* handleStopAlarm has run on a ringing alarm: stopAlarm, then the stopAlarm
\* inside deactivateAlarm, which finds nothing running.
C23_Witness ==
    /\ Idle(store) /\ hist.starts >= 1
    /\ NothingRunning(World) /\ env.timers = {} /\ env.oscillators = {}

\* The same for stopAlarm of useNativeAlarm.ts, with every await resolved:
\* two calls end where one call ends, and a call with nothing running keeps
\* isRinging false and the handles null.
NativeStopOnce(n) ==
    IF n.isNative THEN stopAlarmFinish(native_stopAlarm(n))
    ELSE native_stopAlarm(n)

NativeStopIsIdempotent ==
    /\ NativeStopOnce(NativeStopOnce(native)) = NativeStopOnce(native)
    /\ (/\ ~native.store.isRinging /\ native.interval = Null
        /\ native.vibrationInterval = Null /\ native.oscillator = Null)
       => LET n == NativeStopOnce(native)
          IN /\ ~n.store.isRinging /\ n.interval = Null
             /\ n.vibrationInterval = Null /\ n.oscillator = Null
             /\ n.timers = native.timers /\ n.oscillators = native.oscillators

\* C24: when creating the audio engine fails as the alarm triggers with sound
\* enabled, the failure is caught: the state becomes Ringing and, with
\* vibration enabled, the vibration pattern is started.
C24_AudioFailureStillVibrates ==
    [][(AlarmTrigger /\ env.audioBroken /\ rendered.sound /\ rendered.vibrate)
          => (store'.isRinging /\ env'.timers # {} /\ env'.pattern.vibrate)]_vars

\* C25: when scheduling the notification fails as the native alarm triggers,
\* the other outputs are not prevented: with vibration enabled and the alarm
\* still ringing, the vibration runs after the failure (the device vibrates
\* or a timer that vibrates it is live) and the state stays Ringing.
C25_ScheduleFailureKeepsVibration ==
    [][(PScheduleRejected /\ part006.vibrate /\ part006.store.isRinging)
          => /\ part006'.store.isRinging
             /\ part006'.vibrating \/ part006'.timers # {}]_vars

\* In useNativeAlarm.ts the rejection is caught and the 1500 ms vibration
\* interval, started by triggerAlarm before the await, does not depend on it:
\* on the native platform with vibration enabled a ringing alarm has it.
NativeVibrationIsIndependent ==
    (native.isNative /\ native.vibrate /\ native.store.isRinging)
       => \E t \in native.timers : t.kind = "vibrate1500"

\* C27: a geolocation error (permission denied, unavailable, timeout)
\* delivered while Armed leaves the alarm armed and the fence (destination,
\* radius, registered watch) unchanged, and a later fix within the radius
\* still triggers the alarm: the render that sees it starts the ringing.
ErrorStep == \E code \in ErrorCodes : OneShotError(code) \/ WatchError(code)

C27_ErrorKeepsArmed ==
    /\ [][(ErrorStep /\ Armed(store))
            => /\ Armed(store')
               /\ store'.destination = store.destination
               /\ store'.alertRadius = store.alertRadius
               /\ refs' = refs /\ env'.watches = env.watches]_vars
    /\ [][(hist'.errorSeen /\ Armed(rendered') /\ Inside(rendered'))
            => store'.isRinging]_vars

C27_Witness ==
    /\ hist.errorSeen /\ hist.insideAfterError /\ hist.starts = 1
    /\ rendered.isRinging /\ store.isRinging /\ store.error = Null

\* C28, as stated: the error callback sets only the error field, and a fix
\* sets the position and clears the error.
FixSetsPosition ==
    \A p \in Points :
       (OneShotFix(p) \/ WatchFix(p))
          => /\ store'.position = p /\ store'.error = Null
             /\ store'.isWatching = store.isWatching

C26_AtMostOneWatch ==
    /\ Cardinality(nativeGeo.watches) <= 1
    /\ nativeGeo.pending = {} => WatchIds(nativeGeo) \subseteq {nativeGeo.watchId}

\* useGeolocation of part_008 as Index drives it: its startWatching returns
\* when watchIdRef holds a watch, so one watch at most is registered and the
\* ref holds it.
WebWatchIsSingle ==
    /\ Cardinality(env.watches) <= 1
    /\ env.watches \subseteq {refs.watchId}

\* C29: the alarm settings survive restarts: after any sequence of
\* updateSettings calls, the settings with which the application starts again
\* are the settings it had.
Settings(s) ==
    [sound |-> s.sound, vibrate |-> s.vibrate, tone |-> s.tone,
     volume |-> s.volume]

C29_SettingsSurviveRestart ==
    [][AlarmRestart => Settings(store') = Settings(store)]_vars

\* C30: formatDistance, for every non-negative distance: below 1000 m it
\* returns the integer number of metres (the nearest one) followed by "m",
\* and at or above 1000 m the kilometres with one decimal (the nearest tenth)
\* followed by "km"; 999 gives "999m", 1000 gives "1.0km", 2500 gives "2.5km".
C30_FormatDistance ==
    env.display # "" =>
       LET d == env.distance
       IN /\ d < 10000 =>
               \E n \in {d \div 10, d \div 10 + 1} :
                  /\ env.display = ToString(n) \o "m"
                  /\ Abs(10 * n - d) <= 5
          /\ d >= 10000 =>
               \E t \in {d \div 1000, d \div 1000 + 1} :
                  /\ env.display =
                        ToString(t \div 10) \o "." \o ToString(t % 10) \o "km"
                  /\ Abs(1000 * t - d) <= 500
          /\ d = 9990 => env.display = "999m"
          /\ d = 10000 => env.display = "1.0km"
          /\ d = 25000 => env.display = "2.5km"

C30_Witness == env.distance = 25000 /\ env.display = "2.5km"

\* C31, as stated: the minute count is the rounded quotient; under 60 the
\* result shows that number of minutes, otherwise "Hh Mm" with
\* H = floor(minutes / 60) and M = minutes mod 60.
NearestMinutes(n) ==
    /\ 2 * (50 * env.avgSpeedKmH * n - 3 * env.distanceMeters)
          <= 50 * env.avgSpeedKmH
    /\ 2 * (3 * env.distanceMeters - 50 * env.avgSpeedKmH * n)
          <= 50 * env.avgSpeedKmH

MinuteCandidates ==
    LET q == (3 * env.distanceMeters) \div (50 * env.avgSpeedKmH)
    IN {q, q + 1}

C31_TravelTimeShowsMinutes ==
    env.travelTime # "" =>
       \E minutes \in MinuteCandidates :
          /\ NearestMinutes(minutes)
          /\ minutes < 60 => env.travelTime = ToString(minutes) \o " min"
          /\ minutes >= 60 =>
                env.travelTime = ToString(minutes \div 60) \o "h "
                                   \o ToString(minutes % 60) \o "m"

\* C31, amended: a minute count of 0 is shown as "< 1 min", 1 to 59 as
\* "N min", and from 60 on as "Hh Mm" when M > 0 and as "Hh" when M = 0.
C31_TravelTimeFormat ==
    env.travelTime # "" =>
       \E minutes \in MinuteCandidates :
          /\ NearestMinutes(minutes)
          /\ minutes < 1 => env.travelTime = "< 1 min"
          /\ (minutes >= 1 /\ minutes < 60)
                => env.travelTime = ToString(minutes) \o " min"
          /\ (minutes >= 60 /\ minutes % 60 > 0)
                => env.travelTime = ToString(minutes \div 60) \o "h "
                                      \o ToString(minutes % 60) \o "m"
          /\ (minutes >= 60 /\ minutes % 60 = 0)
                => env.travelTime = ToString(minutes \div 60) \o "h"

\* Ten kilometres on foot: 120 minutes, shown without minutes.
C31_Witness ==
    /\ env.distanceMeters = 10000 /\ env.avgSpeedKmH = TRANSPORT_MODES.walk
    /\ env.travelTime = "2h"

\* C32: calculateDistance is symmetric and zero on identical points: for all
\* coordinate pairs a and b, distance(a, a) = 0 and
\* distance(a, b) = distance(b, a).
C32_DistanceIsSymmetric ==
    env.measured.done =>
       /\ env.measured.aa = 0
       /\ env.measured.ab = env.measured.ba

\* Two points on different latitudes and longitudes, a quarter of the globe
\* apart or more.
C32_Witness ==
    /\ env.measured.done
    /\ env.measured.a[1] # env.measured.b[1]
    /\ env.measured.a[2] # env.measured.b[2]
    /\ env.measured.ab >= 6 * ArcMetres

\* C33: arming while the last known position is already within the alert
\* radius goes to Ringing without waiting for a new position update: the
\* render that follows the arming click has started the alarm.  The last
\* known position is the one in the state of the hook; the click arms when
\* the screen has a position.
C33_ArmInsideRings ==
    [][(ClickActivateAlarm /\ Inside(store) /\ rendered.position # Null)
          => /\ store'.isActive /\ store'.isRinging
             /\ store'.position = store.position
             /\ hist'.starts = 1 /\ env'.timers # {}]_vars

\* Ringing in a session in which no fix within the radius was delivered.
C33_Witness ==
    /\ store.isActive /\ store.isRinging /\ rendered.isRinging
    /\ hist.starts = 1 /\ ~hist.sawInside /\ Inside(store)

\* C34: whenever the alarm is not active there is no open trip: the current
\* trip id is null and every trip started by arming has been ended (with
\* completed = true by acknowledge, completed = false by disarm or by
\* clearing the destination).
C34_NoOpenTripWhenInactive ==
    ~store.isActive =>
        /\ refs.currentTripId = Null
        /\ \A i \in 1..Len(store.trips) : store.trips[i].ended

\* C35: stopBackgroundTracking called while startBackgroundTracking still
\* awaits its watcher: once both have completed no background watcher is
\* registered and isBackgroundTracking is false; after the last
\* stopBackgroundTracking has completed no watcher is left to deliver
\* callbacks.
C35_StopDuringStartWins ==
    (/\ nativeGeo.isNative /\ nativeGeo.stopLast
     /\ nativeGeo.pending = {} /\ nativeGeo.stoppingBackground = 0)
        => /\ \A w \in nativeGeo.watches : w.kind # "background"
           /\ ~nativeGeo.store.isBackgroundTracking

\* C36: while the alarm is active a map click leaves the destination
\* unchanged; a map click while the alarm is not active sets the destination
\* to the clicked point.
C36_MapClick ==
    [][\A d \in Dests :
          ClickMap(d) =>
             IF rendered.isActive
             THEN /\ store'.destination = store.destination
                  /\ rendered'.destination = rendered.destination
             ELSE /\ store'.destination = d
                  /\ rendered'.destination = d]_vars

\* C36 witness: the alarm is active with the destination a map click set,
\* and a map click on another point has been ignored since.
C36_Witness ==
    /\ rendered.isActive /\ hist.mapIgnored /\ hist.mapSet
    /\ rendered.destination # Null

\* C37: the trip history never holds more than 20 trips after any sequence
\* of startTrip, endTrip, deleteTrip and clearHistory; a newly started trip
\* is placed first and, when the limit is exceeded, the trip that is dropped
\* is the oldest one.
C37_HistoryIsLimited ==
    /\ [](/\ Len(store.trips) <= MAX_TRIPS
          /\ Len(env.savedTrips) <= MAX_TRIPS)
    /\ [][TripStartTrip =>
            LET old == store.trips
                new == store'.trips
            IN /\ Len(new) = Min(Len(old) + 1, MAX_TRIPS)
               /\ new[1].id = env.now /\ ~new[1].ended
               /\ \A i \in 2..Len(new) : new[i] = old[i - 1]
               /\ Len(old) = MAX_TRIPS =>
                    /\ hist'.dropped = old[MAX_TRIPS].id
                    /\ \A i \in 1..Len(old) : old[i].id >= hist'.dropped
                    /\ \A i \in 1..Len(new) : new[i].id # hist'.dropped
               /\ Len(old) < MAX_TRIPS => hist'.dropped = hist.dropped]_vars

\* C37 witness: a trip was started with 20 trips in the history: the new
\* trip is first, the history holds 20 trips and the oldest one is gone.
C37_Witness ==
    /\ hist.dropped # Null
    /\ Len(store.trips) = MAX_TRIPS
    /\ ~store.trips[1].ended
    /\ \A i \in 1..Len(store.trips) : store.trips[i].id > hist.dropped

\* C38: in the browser geolocation hook, after any sequence of startWatching
\* and stopWatching calls isWatching is true exactly when a watch is
\* registered (the ref holds its handle, and it is the only watch), and
\* stopWatching with no watch registered changes nothing.
C38_WatchingIffRegistered ==
    /\ [](/\ store.isWatching <=> refs.watchId # Null
          /\ env.watches = (IF refs.watchId = Null THEN {} ELSE {refs.watchId}))
    /\ [][(UseStopWatching /\ refs.watchId = Null)
            => /\ store' = store /\ refs' = refs /\ env' = env]_vars

\* C38 witness: a watch is registered after stopWatching had been called
\* with none, and a fix of the watch has arrived.
C38_Witness ==
    /\ hist.stoppedIdle
    /\ store.isWatching /\ env.watches = {refs.watchId}
    /\ store.position # Null /\ ~env.oneShot /\ store.isLoading = FALSE

\* C39: a held screen wake lock was released by the system (the page was
\* hidden, for example) and the page becomes visible again: the wake lock is
\* re-acquired, that is, the visibilitychange handler asks for it.
C39_VisibleReacquires ==
    [][(WShow /\ wakeLock.lost)
          => wakeLock'.requesting = wakeLock.requesting + 1]_vars

====
